---- MODULE Spec2Model ----
(***************************************************************************)
(* Muscle-engagement analysis of the workout planner: the muscle name      *)
(* normalizer (utils/muscleGroups), the engagement aggregator, the         *)
(* underworked classifier and the suggestion ranker (utils/workoutAnalysis)*)
(* as WorkoutPlanner calls them when it renders the analysis view, and the *)
(* planner itself: the draft, the saved history, its copy in localStorage  *)
(* and the handlers of the workouts view.                                  *)
(*                                                                         *)
(* Strings are sequences of one-character strings, so that toLowerCase,    *)
(* trim, includes and localeCompare are computed character by character.   *)
(* A canonical MuscleGroup is written as a TLA+ string.                    *)
(***************************************************************************)
EXTENDS Integers, Sequences, FiniteSets, TLC

\* ------------------------------------------------------------------------
\* Strings
\* ------------------------------------------------------------------------

\* The result null of normalizeMuscleGroup (no MuscleGroup has this name).
NullGroup ==
    "null"

UpperChars ==
    <<"A", "B", "C", "D", "E", "F", "G", "H", "I", "J", "K", "L", "M",
      "N", "O", "P", "Q", "R", "S", "T", "U", "V", "W", "X", "Y", "Z">>

LowerChars ==
    <<"a", "b", "c", "d", "e", "f", "g", "h", "i", "j", "k", "l", "m",
      "n", "o", "p", "q", "r", "s", "t", "u", "v", "w", "x", "y", "z">>

\* The lower-case letter of each upper-case letter.
LowerOfUpper ==
    [c \in {UpperChars[i] : i \in 1..Len(UpperChars)} |->
        LowerChars[CHOOSE i \in 1..Len(UpperChars) : UpperChars[i] = c]]

\* String.prototype.toLowerCase on one character.
LowerChar(c) ==
    IF c \in DOMAIN LowerOfUpper THEN LowerOfUpper[c] ELSE c

\* String.prototype.toLowerCase.
ToLowerCase(s) ==
    [i \in 1..Len(s) |-> LowerChar(s[i])]

\* The white space String.prototype.trim removes (the characters of it that
\* the modelled names use).
IsWhiteSpace(c) ==
    c = " "

\* String.prototype.trim: the string without its leading and trailing
\* white space.
Trim(s) ==
    LET idx == {i \in 1..Len(s) : ~IsWhiteSpace(s[i])}
    IN  IF idx = {} THEN <<>>
        ELSE LET first == CHOOSE i \in idx : \A j \in idx : i <= j
                 last  == CHOOSE i \in idx : \A j \in idx : j <= i
             IN  SubSeq(s, first, last)

\* String.prototype.includes: sub occurs in s as a contiguous substring
\* (the empty string occurs in every string).
Includes(s, sub) ==
    \E i \in 1..(Len(s) - Len(sub) + 1) :
        SubSeq(s, i, i + Len(sub) - 1) = sub

\* ------------------------------------------------------------------------
\* utils/muscleGroups
\* ------------------------------------------------------------------------

\* The alias table, in declaration order (the order Object.entries yields).
muscleGroupMap ==
  <<
    [key |-> <<"c", "h", "e", "s", "t">>, value |-> "chest"],
    [key |-> <<"p", "e", "c", "t", "o", "r", "a", "l", "s">>, value |-> "chest"],
    [key |-> <<"p", "e", "c", "s">>, value |-> "chest"],
    [key |-> <<"b", "a", "c", "k">>, value |-> "back"],
    [key |-> <<"l", "a", "t", "s">>, value |-> "lats"],
    [key |-> <<"l", "a", "t", "i", "s", "s", "i", "m", "u", "s", " ", "d", "o", "r", "s", "i">>, value |-> "lats"],
    [key |-> <<"m", "i", "d", "d", "l", "e", " ", "b", "a", "c", "k">>, value |-> "middle back"],
    [key |-> <<"l", "o", "w", "e", "r", " ", "b", "a", "c", "k">>, value |-> "lower back"],
    [key |-> <<"u", "p", "p", "e", "r", " ", "b", "a", "c", "k">>, value |-> "middle back"],
    [key |-> <<"s", "h", "o", "u", "l", "d", "e", "r", "s">>, value |-> "shoulders"],
    [key |-> <<"s", "h", "o", "u", "l", "d", "e", "r">>, value |-> "shoulders"],
    [key |-> <<"d", "e", "l", "t", "o", "i", "d", "s">>, value |-> "shoulders"],
    [key |-> <<"d", "e", "l", "t", "s">>, value |-> "shoulders"],
    [key |-> <<"a", "n", "t", "e", "r", "i", "o", "r", " ", "d", "e", "l", "t", "o", "i", "d">>, value |-> "shoulders"],
    [key |-> <<"p", "o", "s", "t", "e", "r", "i", "o", "r", " ", "d", "e", "l", "t", "o", "i", "d">>, value |-> "shoulders"],
    [key |-> <<"l", "a", "t", "e", "r", "a", "l", " ", "d", "e", "l", "t", "o", "i", "d">>, value |-> "shoulders"],
    [key |-> <<"b", "i", "c", "e", "p", "s">>, value |-> "biceps"],
    [key |-> <<"b", "i", "c", "e", "p">>, value |-> "biceps"],
    [key |-> <<"t", "r", "i", "c", "e", "p", "s">>, value |-> "triceps"],
    [key |-> <<"t", "r", "i", "c", "e", "p">>, value |-> "triceps"],
    [key |-> <<"f", "o", "r", "e", "a", "r", "m", "s">>, value |-> "forearms"],
    [key |-> <<"f", "o", "r", "e", "a", "r", "m">>, value |-> "forearms"],
    [key |-> <<"a", "b", "d", "o", "m", "i", "n", "a", "l", "s">>, value |-> "abdominals"],
    [key |-> <<"a", "b", "s">>, value |-> "abdominals"],
    [key |-> <<"a", "b", "d", "o", "m", "i", "n", "a", "l">>, value |-> "abdominals"],
    [key |-> <<"c", "o", "r", "e">>, value |-> "abdominals"],
    [key |-> <<"q", "u", "a", "d", "r", "i", "c", "e", "p", "s">>, value |-> "quadriceps"],
    [key |-> <<"q", "u", "a", "d", "s">>, value |-> "quadriceps"],
    [key |-> <<"q", "u", "a", "d">>, value |-> "quadriceps"],
    [key |-> <<"h", "a", "m", "s", "t", "r", "i", "n", "g", "s">>, value |-> "hamstrings"],
    [key |-> <<"h", "a", "m", "s", "t", "r", "i", "n", "g">>, value |-> "hamstrings"],
    [key |-> <<"h", "a", "m", "s">>, value |-> "hamstrings"],
    [key |-> <<"g", "l", "u", "t", "e", "s">>, value |-> "glutes"],
    [key |-> <<"g", "l", "u", "t", "e">>, value |-> "glutes"],
    [key |-> <<"g", "l", "u", "t", "e", "a", "l">>, value |-> "glutes"],
    [key |-> <<"c", "a", "l", "v", "e", "s">>, value |-> "calves"],
    [key |-> <<"c", "a", "l", "f">>, value |-> "calves"],
    [key |-> <<"g", "a", "s", "t", "r", "o", "c", "n", "e", "m", "i", "u", "s">>, value |-> "calves"],
    [key |-> <<"s", "o", "l", "e", "u", "s">>, value |-> "calves"],
    [key |-> <<"t", "r", "a", "p", "s">>, value |-> "traps"],
    [key |-> <<"t", "r", "a", "p", "e", "z", "i", "u", "s">>, value |-> "traps"],
    [key |-> <<"t", "r", "a", "p">>, value |-> "traps"],
    [key |-> <<"a", "d", "d", "u", "c", "t", "o", "r", "s">>, value |-> "adductors"],
    [key |-> <<"a", "d", "d", "u", "c", "t", "o", "r">>, value |-> "adductors"],
    [key |-> <<"a", "b", "d", "u", "c", "t", "o", "r", "s">>, value |-> "abductors"],
    [key |-> <<"a", "b", "d", "u", "c", "t", "o", "r">>, value |-> "abductors"],
    [key |-> <<"n", "e", "c", "k">>, value |-> "neck"]
  >>

\* All major muscle groups for the heatmap: every MuscleGroup except neck.
MAJOR_MUSCLE_GROUPS ==
    <<"chest", "back", "shoulders", "biceps", "triceps", "forearms",
      "abdominals", "quadriceps", "hamstrings", "glutes", "calves", "traps",
      "lats", "middle back", "lower back", "adductors", "abductors">>

\* The type MuscleGroup: MAJOR_MUSCLE_GROUPS and neck.
MuscleGroup ==
    {muscleGroupMap[i].value : i \in 1..Len(muscleGroupMap)}

MajorSet ==
    {MAJOR_MUSCLE_GROUPS[i] : i \in 1..Len(MAJOR_MUSCLE_GROUPS)}

\* The property lookup muscleGroupMap[normalized]: the value of each key.
muscleGroupOf ==
    [k \in {muscleGroupMap[i].key : i \in 1..Len(muscleGroupMap)} |->
        muscleGroupMap[CHOOSE i \in 1..Len(muscleGroupMap) : muscleGroupMap[i].key = k].value]

\* muscleGroupMap is an object literal: the property lookup
\* muscleGroupMap[normalized] also finds what the object inherits from
\* Object.prototype.  Of the inherited names, these are the ones a
\* lower-cased string can equal; their values are an object and a function,
\* both truthy.
InheritedProperties ==
    (<<"c", "o", "n", "s", "t", "r", "u", "c", "t", "o", "r">> :> "function Object")
    @@ (<<"_", "_", "p", "r", "o", "t", "o", "_", "_">> :> "Object.prototype")

\* normalizeMuscleGroup: lower-case and trim; the value of the property named
\* by the result if there is one; else the value of the first key, in table
\* order, that the input contains or that contains the input; else null.
normalizeMuscleGroup(muscleName) ==
    LET normalized == Trim(ToLowerCase(muscleName))
        partial    == {i \in 1..Len(muscleGroupMap) :
                          \/ Includes(normalized, muscleGroupMap[i].key)
                          \/ Includes(muscleGroupMap[i].key, normalized)}
    IN  IF normalized \in DOMAIN muscleGroupOf
        THEN muscleGroupOf[normalized]
        ELSE IF normalized \in DOMAIN InheritedProperties
        THEN InheritedProperties[normalized]
        ELSE IF partial # {}
        THEN muscleGroupMap[CHOOSE i \in partial : \A j \in partial : i <= j].value
        ELSE NullGroup

\* The map and filter of getMuscleGroupsFromExercise, were they to keep a
\* group once only (a repeated group dropped).
RECURSIVE NormalizeAllDistinct(_)
NormalizeAllDistinct(names) ==
    IF names = <<>> THEN <<>>
    ELSE LET mg   == normalizeMuscleGroup(names[Len(names)])
             rest == NormalizeAllDistinct(SubSeq(names, 1, Len(names) - 1))
         IN  IF mg = NullGroup \/ (\E i \in 1..Len(rest) : rest[i] = mg)
             THEN rest ELSE Append(rest, mg)

\* Array.prototype.map with normalizeMuscleGroup, then Array.prototype.filter
\* with the predicate mg !== null.
RECURSIVE NormalizeAll(_)
NormalizeAll(names) ==
    IF names = <<>> THEN <<>>
    ELSE LET mg == normalizeMuscleGroup(Head(names))
         IN  (IF mg = NullGroup THEN <<>> ELSE <<mg>>) \o NormalizeAll(Tail(names))

\* The object has no property of this name: reading it gives undefined.
Absent(object, property) ==
    property \notin DOMAIN object

\* getMuscleGroupsFromExercise throws a TypeError: exercise.primaryMuscles or
\* exercise.secondaryMuscles is undefined and .map is read of it.
getMuscleGroupsFromExerciseThrows(exercise) ==
    \/ Absent(exercise, "primaryMuscles")
    \/ Absent(exercise, "secondaryMuscles")

\* getMuscleGroupsFromExercise, when it returns.
getMuscleGroupsFromExercise(exercise) ==
    [primary   |-> NormalizeAll(exercise.primaryMuscles),
     secondary |-> NormalizeAll(exercise.secondaryMuscles)]

\* ------------------------------------------------------------------------
\* Dates
\* ------------------------------------------------------------------------

\* Instants are counted in ticks; a calendar day (UTC) has TicksPerDay of
\* them.  A workout date 'YYYY-MM-DD' is the number of its day.
TicksPerDay ==
    2

\* lastWorkedDate: null.
NullDate ==
    -1

\* new Date(date) of a date-only string: the instant of that day's midnight.
DateValue(date) ==
    date * TicksPerDay

\* d.setDate(d.getDate() - n): the same time of day, n days earlier (no
\* change of the local clock, such as daylight saving, within the n days).
SetDateBack(instant, n) ==
    instant - n * TicksPerDay

\* The calendar day an instant falls on (toISOString().split('T')[0]).
DayOf(instant) ==
    instant \div TicksPerDay

\* ------------------------------------------------------------------------
\* Numbers
\* ------------------------------------------------------------------------

\* engagementCount is a Number, a binary64 floating-point number.  Those the
\* analysis computes are zero or positive and finite: zero, or a significand
\* of 53 bits, the leading one 1, times a power of two.  The significand is
\* held in two limbs of LimbBits bits, h * 2^LimbBits + l, and e is the
\* power of two of its last bit.
LimbBits ==
    27

Limb ==
    2^LimbBits

Zero64 ==
    [h |-> 0, l |-> 0, e |-> 0]

\* The literal 1.0.
One64 ==
    [h |-> 2^25, l |-> 0, e |-> -52]

\* Arithmetic on the integers below 2^54 that two limbs hold.
PairShiftRight(p, s) ==
    IF s = 0 THEN p
    ELSE IF s < LimbBits
    THEN [h |-> p.h \div 2^s,
          l |-> p.l \div 2^s + (p.h % 2^s) * 2^(LimbBits - s)]
    ELSE IF s < 2 * LimbBits
    THEN [h |-> 0, l |-> p.h \div 2^(s - LimbBits)]
    ELSE [h |-> 0, l |-> 0]

\* p modulo 2^s
PairLowBits(p, s) ==
    IF s <= LimbBits THEN [h |-> 0, l |-> p.l % 2^s]
    ELSE IF s < 2 * LimbBits THEN [h |-> p.h % 2^(s - LimbBits), l |-> p.l]
    ELSE p

PairAdd(p, q) ==
    [h |-> p.h + q.h + (p.l + q.l) \div Limb, l |-> (p.l + q.l) % Limb]

PairPow2(k) ==
    IF k < LimbBits THEN [h |-> 0, l |-> 2^k] ELSE [h |-> 2^(k - LimbBits), l |-> 0]

\* -1, 0 or 1 as p is less than, equal to or greater than q.
PairCompare(p, q) ==
    IF p.h # q.h THEN (IF p.h < q.h THEN -1 ELSE 1)
    ELSE IF p.l # q.l THEN (IF p.l < q.l THEN -1 ELSE 1)
    ELSE 0

\* The number with the significand p + 1 (or p, when up is false), p a
\* significand of 53 bits whose last bit has the power e.
RoundedUp(p, e, up) ==
    LET q == IF up THEN PairAdd(p, [h |-> 0, l |-> 1]) ELSE p
    IN  IF q.h = 2^26 THEN [h |-> 2^25, l |-> 0, e |-> e + 1]
        ELSE [h |-> q.h, l |-> q.l, e |-> e]

\* x + y, rounded to nearest, ties to even.
Add64(x, y) ==
    IF x = Zero64 THEN y
    ELSE IF y = Zero64 THEN x
    ELSE LET hi    == IF x.e >= y.e THEN x ELSE y
             lo    == IF x.e >= y.e THEN y ELSE x
             shift == hi.e - lo.e
         IN  IF shift >= 2 * LimbBits THEN hi
             ELSE LET sum  == PairAdd(hi, PairShiftRight(lo, shift))
                      rest == PairLowBits(lo, shift)
                  IN  IF sum.h < 2^26
                      THEN LET half == IF shift = 0 THEN -1
                                       ELSE PairCompare(rest, PairPow2(shift - 1))
                           IN  RoundedUp(sum, hi.e,
                                         half > 0 \/ (half = 0 /\ sum.l % 2 = 1))
                      ELSE LET kept == PairShiftRight(sum, 1)
                           IN  RoundedUp(kept, hi.e + 1,
                                         /\ sum.l % 2 = 1
                                         /\ (rest # [h |-> 0, l |-> 0] \/ kept.l % 2 = 1))

\* x * 0.5: exact.
Half64(x) ==
    IF x = Zero64 THEN x ELSE [h |-> x.h, l |-> x.l, e |-> x.e - 1]

\* 2^k modulo d, for k up to 90.
Pow2Mod(k, d) ==
    IF k <= 30 THEN (2^k) % d
    ELSE IF k <= 60 THEN (((2^30) % d) * ((2^(k - 30)) % d)) % d
    ELSE (((((2^30) % d) * ((2^30) % d)) % d) * ((2^(k - 60)) % d)) % d

\* The binary digits of a positive integer, the leading 1 first.
RECURSIVE BitsOf(_)
BitsOf(n) ==
    IF n = 0 THEN <<>> ELSE Append(BitsOf(n \div 2), n % 2)

\* The integer of a sequence of binary digits.
RECURSIVE ValueOfBits(_)
ValueOfBits(bits) ==
    IF bits = <<>> THEN 0
    ELSE 2 * ValueOfBits(SubSeq(bits, 1, Len(bits) - 1)) + bits[Len(bits)]

\* n / d for integers 0 < n < 2^31 and 0 < d <= 1000, rounded to nearest,
\* ties to even: the long division of n by d.  After the digits of the
\* integer part the k-th digit of the quotient is 1 when twice the
\* remainder left by k - 1 digits reaches d.
Divide64(n, d) ==
    LET whole    == BitsOf(n \div d)
        left(k)  == ((n % d) * Pow2Mod(k, d)) % d
        digit(k) == IF 2 * left(k - 1) >= d THEN 1 ELSE 0
        lead     == IF whole # <<>> THEN 0
                    ELSE (CHOOSE k \in 1..20 :
                              /\ digit(k) = 1
                              /\ \A j \in 1..(k - 1) : digit(j) = 0) - 1
        count    == 54 - Len(whole)
        sig      == whole \o [k \in 1..count |-> digit(lead + k)]
    IN  RoundedUp([h |-> ValueOfBits(SubSeq(sig, 1, 26)),
                   l |-> ValueOfBits(SubSeq(sig, 27, 53))],
                  1 - (lead + count),
                  /\ sig[54] = 1
                  /\ (left(lead + count) # 0 \/ sig[53] = 1))

\* ------------------------------------------------------------------------
\* utils/workoutAnalysis: analyzeMuscleGroups
\* ------------------------------------------------------------------------

\* The divisor of the volume normalisation.
VolumeDivisor ==
    1000

\* engagementCount is a real number; the model counts it exactly, in units
\* of 1 / (2 * VolumeDivisor), so that half a normalized volume is a whole
\* number of units.
EngagementOne ==
    2 * VolumeDivisor

\* exercise.sets.reduce((sum, set) => sum + set.reps * set.weight, 0)
RECURSIVE totalVolume(_)
totalVolume(sets) ==
    IF sets = <<>> THEN 0
    ELSE totalVolume(SubSeq(sets, 1, Len(sets) - 1))
         + sets[Len(sets)].reps * sets[Len(sets)].weight

\* engagementValue with the fallback taken only for a volume of zero
\* (normalizedVolume !== 0 in place of normalizedVolume > 0).
engagementValueNonZero(exercise) ==
    IF totalVolume(exercise.sets) # 0
    THEN 2 * totalVolume(exercise.sets)
    ELSE EngagementOne

\* engagementValue = normalizedVolume > 0 ? normalizedVolume : 1.0, in
\* units of 1 / (2 * VolumeDivisor).
engagementValue(exercise) ==
    IF totalVolume(exercise.sets) > 0
    THEN 2 * totalVolume(exercise.sets)
    ELSE EngagementOne

\* The Map stats is the sequence of its entries in insertion order; the key
\* of an entry is its muscleGroup.
InitialStats ==
    [i \in 1..Len(MAJOR_MUSCLE_GROUPS) |->
        [muscleGroup     |-> MAJOR_MUSCLE_GROUPS[i],
         engagementCount |-> 0,
         lastWorkedDate  |-> NullDate,
         workouts        |-> 0]]

\* stats.get(mg) is defined.
MapHas(stats, mg) ==
    \E i \in 1..Len(stats) : stats[i].muscleGroup = mg

\* The position of the entry stats.get(mg).
MapIndex(stats, mg) ==
    CHOOSE i \in 1..Len(stats) : stats[i].muscleGroup = mg

\* stats.get(mg)
MapGet(stats, mg) ==
    stats[MapIndex(stats, mg)]

\* The update of lastWorkedDate, were it to overwrite the date whatever the
\* stored one (the comparison forgotten).
UpdatedLastWorkedAlways(stat, workout) ==
    workout.date

\* The update of lastWorkedDate:
\* if (!stat.lastWorkedDate || workoutDate > new Date(stat.lastWorkedDate))
UpdatedLastWorked(stat, workout) ==
    IF \/ stat.lastWorkedDate = NullDate
       \/ DateValue(workout.date) > DateValue(stat.lastWorkedDate)
    THEN workout.date
    ELSE stat.lastWorkedDate

\* The body of primary.forEach, were it to create the entry of a group the
\* map lacks (stats.set in place of the test if (stat)).
PrimaryStepSetsMissing(acc, mg, value, workout) ==
    IF ~MapHas(acc.stats, mg)
    THEN [stats |-> Append(acc.stats,
                           [muscleGroup     |-> mg,
                            engagementCount |-> value,
                            lastWorkedDate  |-> workout.date,
                            workouts        |-> 1]),
          exerciseMuscles |-> acc.exerciseMuscles \cup {mg}]
    ELSE LET i    == MapIndex(acc.stats, mg)
             stat == acc.stats[i]
         IN  [stats |-> [acc.stats EXCEPT ![i] =
                            [muscleGroup     |-> stat.muscleGroup,
                             engagementCount |-> stat.engagementCount + value,
                             lastWorkedDate  |-> UpdatedLastWorked(stat, workout),
                             workouts        |-> stat.workouts + 1]],
              exerciseMuscles |-> acc.exerciseMuscles \cup {mg}]

\* The body of primary.forEach: acc is the pair of stats and exerciseMuscles.
PrimaryStep(acc, mg, value, workout) ==
    IF ~MapHas(acc.stats, mg) THEN acc
    ELSE LET i    == MapIndex(acc.stats, mg)
             stat == acc.stats[i]
         IN  [stats |-> [acc.stats EXCEPT ![i] =
                            [muscleGroup     |-> stat.muscleGroup,
                             engagementCount |-> stat.engagementCount + value,
                             lastWorkedDate  |-> UpdatedLastWorked(stat, workout),
                             workouts        |-> stat.workouts + 1]],
              exerciseMuscles |-> acc.exerciseMuscles \cup {mg}]

\* The body of secondary.forEach, were it to add the full engagement value
\* (the factor 0.5 forgotten).
SecondaryStepFull(acc, mg, value, workout) ==
    IF ~MapHas(acc.stats, mg) THEN acc
    ELSE LET i    == MapIndex(acc.stats, mg)
             stat == acc.stats[i]
         IN  [stats |-> [acc.stats EXCEPT ![i] =
                            [muscleGroup     |-> stat.muscleGroup,
                             engagementCount |-> stat.engagementCount + value,
                             lastWorkedDate  |-> UpdatedLastWorked(stat, workout),
                             workouts        |-> IF mg \in acc.exerciseMuscles
                                                 THEN stat.workouts
                                                 ELSE stat.workouts + 1]],
              exerciseMuscles |-> acc.exerciseMuscles \cup {mg}]

\* The body of secondary.forEach.
SecondaryStep(acc, mg, value, workout) ==
    IF ~MapHas(acc.stats, mg) THEN acc
    ELSE LET i    == MapIndex(acc.stats, mg)
             stat == acc.stats[i]
         IN  [stats |-> [acc.stats EXCEPT ![i] =
                            [muscleGroup     |-> stat.muscleGroup,
                             engagementCount |-> stat.engagementCount + value \div 2,
                             lastWorkedDate  |-> UpdatedLastWorked(stat, workout),
                             workouts        |-> IF mg \in acc.exerciseMuscles
                                                 THEN stat.workouts
                                                 ELSE stat.workouts + 1]],
              exerciseMuscles |-> acc.exerciseMuscles \cup {mg}]

RECURSIVE PrimaryLoop(_, _, _, _)
PrimaryLoop(acc, primary, value, workout) ==
    IF primary = <<>> THEN acc
    ELSE PrimaryLoop(PrimaryStep(acc, Head(primary), value, workout),
                     Tail(primary), value, workout)

RECURSIVE SecondaryLoop(_, _, _, _)
SecondaryLoop(acc, secondary, value, workout) ==
    IF secondary = <<>> THEN acc
    ELSE SecondaryLoop(SecondaryStep(acc, Head(secondary), value, workout),
                       Tail(secondary), value, workout)

\* The body of workout.exercises.forEach: a fresh exerciseMuscles set, the
\* primary muscles, then the secondary muscles.
ExerciseStep(stats, exercise, workout) ==
    LET mgs   == getMuscleGroupsFromExercise(exercise)
        value == engagementValue(exercise)
        afterPrimary == PrimaryLoop([stats |-> stats, exerciseMuscles |-> {}],
                                    mgs.primary, value, workout)
    IN  SecondaryLoop(afterPrimary, mgs.secondary, value, workout).stats

RECURSIVE ExerciseLoop(_, _, _)
ExerciseLoop(stats, exercises, workout) ==
    IF exercises = <<>> THEN stats
    ELSE ExerciseLoop(ExerciseStep(stats, Head(exercises), workout),
                      Tail(exercises), workout)

\* if (workoutDate < cutoffDate) return;
Skipped(workout, cutoffDate) ==
    DateValue(workout.date) < cutoffDate

RECURSIVE WorkoutLoop(_, _, _)
WorkoutLoop(stats, ws, cutoffDate) ==
    IF ws = <<>> THEN stats
    ELSE WorkoutLoop(IF Skipped(Head(ws), cutoffDate) THEN stats
                     ELSE ExerciseLoop(stats, Head(ws).exercises, Head(ws)),
                     Tail(ws), cutoffDate)

\* analyzeMuscleGroups(workouts, timePeriod), called at the instant now, when
\* it returns.
analyzeMuscleGroups(ws, period, now) ==
    WorkoutLoop(InitialStats, ws, SetDateBack(now, period))

\* The engagementCount fields as the code holds them: binary64 numbers,
\* each += rounded.  engagementValue:
engagementValue64(exercise) ==
    IF totalVolume(exercise.sets) > 0
    THEN Divide64(totalVolume(exercise.sets), VolumeDivisor)
    ELSE One64

\* stat.engagementCount += term for every entry of the list that has a
\* stat, in the order of the list.
RECURSIVE AddEach64(_, _, _)
AddEach64(counts, mgs, term) ==
    IF mgs = <<>> THEN counts
    ELSE AddEach64(IF Head(mgs) \in DOMAIN counts
                   THEN [counts EXCEPT ![Head(mgs)] = Add64(@, term)]
                   ELSE counts,
                   Tail(mgs), term)

\* The += of primary.forEach, then those of secondary.forEach.
ExerciseStep64(counts, exercise) ==
    LET mgs   == getMuscleGroupsFromExercise(exercise)
        value == engagementValue64(exercise)
    IN  AddEach64(AddEach64(counts, mgs.primary, value),
                  mgs.secondary, Half64(value))

RECURSIVE ExerciseLoop64(_, _)
ExerciseLoop64(counts, exercises) ==
    IF exercises = <<>> THEN counts
    ELSE ExerciseLoop64(ExerciseStep64(counts, Head(exercises)), Tail(exercises))

RECURSIVE WorkoutLoop64(_, _, _)
WorkoutLoop64(counts, ws, cutoffDate) ==
    IF ws = <<>> THEN counts
    ELSE WorkoutLoop64(IF Skipped(Head(ws), cutoffDate) THEN counts
                       ELSE ExerciseLoop64(counts, Head(ws).exercises),
                       Tail(ws), cutoffDate)

\* The engagementCount of every group in the result of
\* analyzeMuscleGroups(workouts, timePeriod), called at the instant now.
engagementCounts64(ws, period, now) ==
    WorkoutLoop64([g \in MajorSet |-> Zero64], ws, SetDateBack(now, period))

\* analyzeMuscleGroups throws a TypeError: an exercise of a workout that is
\* not skipped has no primaryMuscles, no secondaryMuscles or no sets
\* (exercise.sets.reduce).
analyzeMuscleGroupsThrows(ws, period, now) ==
    \E i \in 1..Len(ws) :
        /\ ~Skipped(ws[i], SetDateBack(now, period))
        /\ \E j \in 1..Len(ws[i].exercises) :
               \/ getMuscleGroupsFromExerciseThrows(ws[i].exercises[j])
               \/ Absent(ws[i].exercises[j], "sets")

\* ------------------------------------------------------------------------
\* utils/workoutAnalysis: getUnderworkedMuscles
\* ------------------------------------------------------------------------

\* The days of the recency rule.
UnderworkedDays ==
    7

\* The test of stats.forEach in getUnderworkedMuscles, were it to pass over
\* a group that was never worked (the branch of !stat.lastWorkedDate
\* forgotten).
IsUnderworkedDated(stat, sevenDaysAgo) ==
    /\ stat.lastWorkedDate # NullDate
    /\ DateValue(stat.lastWorkedDate) < sevenDaysAgo

\* The test of stats.forEach in getUnderworkedMuscles.
IsUnderworked(stat, sevenDaysAgo) ==
    \/ stat.lastWorkedDate = NullDate
    \/ DateValue(stat.lastWorkedDate) < sevenDaysAgo

RECURSIVE UnderworkedLoop(_, _)
UnderworkedLoop(stats, sevenDaysAgo) ==
    IF stats = <<>> THEN <<>>
    ELSE (IF IsUnderworked(Head(stats), sevenDaysAgo)
          THEN <<Head(stats).muscleGroup>> ELSE <<>>)
         \o UnderworkedLoop(Tail(stats), sevenDaysAgo)

\* getUnderworkedMuscles(stats), called at the instant now.
getUnderworkedMuscles(stats, now) ==
    UnderworkedLoop(stats, SetDateBack(now, UnderworkedDays))

\* ------------------------------------------------------------------------
\* utils/workoutAnalysis: generateSuggestions
\* ------------------------------------------------------------------------

\* The place of each letter in the alphabet.
AlphabetRank ==
    [c \in {LowerChars[i] : i \in 1..Len(LowerChars)} |->
        CHOOSE i \in 1..Len(LowerChars) : LowerChars[i] = c]

\* The rank of a character at the first level of the collation that
\* String.prototype.localeCompare uses: white space before letters, a letter
\* at its place in the alphabet whatever its case.
LetterRank(c) ==
    IF LowerChar(c) \in DOMAIN AlphabetRank THEN AlphabetRank[LowerChar(c)] ELSE 0

\* The rank of a character's case: lower case before upper case.
CaseRank(c) ==
    IF c \in DOMAIN LowerOfUpper THEN 1 ELSE 0

\* Lexicographic comparison of two sequences of numbers: -1, 0 or 1.
RECURSIVE LexCompare(_, _)
LexCompare(a, b) ==
    IF a = <<>> /\ b = <<>> THEN 0
    ELSE IF a = <<>> THEN -1
    ELSE IF b = <<>> THEN 1
    ELSE IF Head(a) < Head(b) THEN -1
    ELSE IF Head(a) > Head(b) THEN 1
    ELSE LexCompare(Tail(a), Tail(b))

\* a.localeCompare(b): the letters decide; between names with the same
\* letters, the case of the first character that differs decides.
localeCompare(a, b) ==
    LET byLetter == LexCompare([i \in 1..Len(a) |-> LetterRank(a[i])],
                               [i \in 1..Len(b) |-> LetterRank(b[i])])
    IN  IF byLetter # 0 THEN byLetter
        ELSE LexCompare([i \in 1..Len(a) |-> CaseRank(a[i])],
                        [i \in 1..Len(b) |-> CaseRank(b[i])])

\* Array.prototype.includes
SeqIncludes(seq, x) ==
    \E i \in 1..Len(seq) : seq[i] = x

\* The priority score of a primary match.
PrimaryPriority ==
    2

\* The priority score of a match that is not primary.
SecondaryPriority ==
    1

\* The body of exerciseDB.forEach, were it to push the exercise once for a
\* primary match and once more for a secondary match.
MatchStepPerList(matchingExercises, exercise, muscleGroup) ==
    LET mgs         == getMuscleGroupsFromExercise(exercise)
        isPrimary   == SeqIncludes(mgs.primary, muscleGroup)
        isSecondary == SeqIncludes(mgs.secondary, muscleGroup)
    IN  (IF isPrimary
         THEN Append(matchingExercises,
                     [exercise |-> exercise, _priority |-> PrimaryPriority])
         ELSE matchingExercises)
        \o (IF isSecondary
            THEN <<[exercise |-> exercise, _priority |-> SecondaryPriority]>>
            ELSE <<>>)

\* The body of exerciseDB.forEach: push the exercise with its _priority when
\* the group is among its primary or its secondary muscles.
MatchStep(matchingExercises, exercise, muscleGroup) ==
    LET mgs         == getMuscleGroupsFromExercise(exercise)
        isPrimary   == SeqIncludes(mgs.primary, muscleGroup)
        isSecondary == SeqIncludes(mgs.secondary, muscleGroup)
    IN  IF isPrimary \/ isSecondary
        THEN Append(matchingExercises,
                    [exercise  |-> exercise,
                     _priority |-> IF isPrimary THEN PrimaryPriority
                                   ELSE SecondaryPriority])
        ELSE matchingExercises

RECURSIVE MatchLoop(_, _, _)
MatchLoop(matchingExercises, db, muscleGroup) ==
    IF db = <<>> THEN matchingExercises
    ELSE MatchLoop(MatchStep(matchingExercises, Head(db), muscleGroup),
                   Tail(db), muscleGroup)

\* String(undefined), which localeCompare compares with when its argument
\* is undefined.
UndefinedName ==
    <<"u", "n", "d", "e", "f", "i", "n", "e", "d">>

\* The name a comparison that does not throw reads of an exercise.
NameOf(exercise) ==
    IF Absent(exercise, "name") THEN UndefinedName ELSE exercise.name

\* The comparator of matchingExercises.sort, were it to compare the names
\* only (the priority forgotten).
CompareMatchesByName(a, b) ==
    localeCompare(NameOf(a.exercise), NameOf(b.exercise))

\* The comparator of matchingExercises.sort, when it returns: negative when
\* a goes first.
CompareMatches(a, b) ==
    IF b._priority # a._priority
    THEN b._priority - a._priority
    ELSE localeCompare(NameOf(a.exercise), NameOf(b.exercise))

\* a.name.localeCompare(b.name) throws a TypeError when a.name is undefined
\* and the priorities are equal.  Which of two elements the sort passes as
\* a is left to the engine: the sort throws for certain when the list has
\* two elements or more, all of one priority and all without a name,
SortMustThrow(list) ==
    /\ Len(list) >= 2
    /\ \A i \in 1..Len(list) :
           /\ list[i]._priority = list[1]._priority
           /\ Absent(list[i].exercise, "name")

\* and can throw when an element without a name has another of its
\* priority to be compared with.
SortMayThrow(list) ==
    \E i, j \in 1..Len(list) :
        /\ i # j
        /\ list[i]._priority = list[j]._priority
        /\ Absent(list[i].exercise, "name")

\* Insertion of x into a sorted list behind every element that does not
\* come after it.
RECURSIVE InsertSorted(_, _)
InsertSorted(sorted, x) ==
    IF sorted = <<>> THEN <<x>>
    ELSE IF CompareMatches(Head(sorted), x) <= 0
    THEN <<Head(sorted)>> \o InsertSorted(Tail(sorted), x)
    ELSE <<x>> \o sorted

\* Array.prototype.sort with CompareMatches: a stable sort.
RECURSIVE SortMatches(_)
SortMatches(list) ==
    IF list = <<>> THEN <<>>
    ELSE InsertSorted(SortMatches(SubSeq(list, 1, Len(list) - 1)), list[Len(list)])

\* Array.prototype.slice(0, end): a negative end counts from the end of the
\* list.
SliceTo(list, end) ==
    LET n == Len(list)
        e == IF end < 0 THEN (IF n + end < 0 THEN 0 ELSE n + end)
             ELSE (IF end > n THEN n ELSE end)
    IN  SubSeq(list, 1, e)

\* topExercises: the first limitPerGroup matches, without their _priority.
TopExercises(muscleGroup, db, limit) ==
    LET top == SliceTo(SortMatches(MatchLoop(<<>>, db, muscleGroup)), limit)
    IN  [i \in 1..Len(top) |-> top[i].exercise]

\* The body of underworkedMuscles.forEach, were it to push a Suggestion
\* whatever the number of exercises (the test topExercises.length > 0
\* forgotten).
SuggestStepAlways(suggestions, muscleGroup, db, limit) ==
    Append(suggestions,
           [muscleGroup |-> muscleGroup,
            exercises   |-> TopExercises(muscleGroup, db, limit),
            reason      |-> <<"You haven't worked your ", muscleGroup,
                              " in the last week. Try these exercises:">>])

\* The body of underworkedMuscles.forEach.
SuggestStep(suggestions, muscleGroup, db, limit) ==
    LET topExercises == TopExercises(muscleGroup, db, limit)
    IN  IF Len(topExercises) > 0
        THEN Append(suggestions,
                    [muscleGroup |-> muscleGroup,
                     exercises   |-> topExercises,
                     reason      |-> <<"You haven't worked your ", muscleGroup,
                                       " in the last week. Try these exercises:">>])
        ELSE suggestions

RECURSIVE SuggestLoop(_, _, _, _)
SuggestLoop(suggestions, muscles, db, limit) ==
    IF muscles = <<>> THEN suggestions
    ELSE SuggestLoop(SuggestStep(suggestions, Head(muscles), db, limit),
                     Tail(muscles), db, limit)

\* generateSuggestions(underworkedMuscles, exerciseDB, limitPerGroup), when
\* it returns.
generateSuggestions(muscles, db, limit) ==
    SuggestLoop(<<>>, muscles, db, limit)

\* Whether generateSuggestions throws: the set of the possible answers.  It
\* throws for certain when there is a target and a catalog exercise on
\* which getMuscleGroupsFromExercise throws, or when the sort of the
\* matches of some target throws for certain.
generateSuggestionsThrows(muscles, db, limit) ==
    IF muscles = <<>> THEN {FALSE}
    ELSE IF \E i \in 1..Len(db) : getMuscleGroupsFromExerciseThrows(db[i])
    THEN {TRUE}
    ELSE IF \A i \in 1..Len(db) : ~Absent(db[i], "name")
    THEN {FALSE}
    ELSE IF \E k \in 1..Len(muscles) : SortMustThrow(MatchLoop(<<>>, db, muscles[k]))
    THEN {TRUE}
    ELSE IF \E k \in 1..Len(muscles) : SortMayThrow(MatchLoop(<<>>, db, muscles[k]))
    THEN {TRUE, FALSE}
    ELSE {FALSE}

\* ------------------------------------------------------------------------
\* utils/workoutAnalysis: getHeatmapIntensity, getHeatmapColor
\* ------------------------------------------------------------------------

\* const thresholds, in whole units of engagement.
thresholds ==
    (7 :> [hot |-> 6, warm |-> 2])
    @@ (14 :> [hot |-> 12, warm |-> 4])
    @@ (30 :> [hot |-> 24, warm |-> 8])

\* getHeatmapIntensity, were its threshold tests exclusive (> in place of
\* >=).
getHeatmapIntensityExclusive(stat, period) ==
    LET threshold  == thresholds[period]
        engagement == stat.engagementCount
    IN  IF engagement > threshold.hot * EngagementOne THEN 10
        ELSE IF engagement > threshold.warm * EngagementOne THEN 6
        ELSE IF engagement > 0 THEN 3
        ELSE 0

\* getHeatmapIntensity(stat, timePeriod): the intensity in tenths (1.0, 0.6,
\* 0.3 and 0.0 are 10, 6, 3 and 0).
getHeatmapIntensity(stat, period) ==
    LET threshold  == thresholds[period]
        engagement == stat.engagementCount
    IN  IF engagement >= threshold.hot * EngagementOne THEN 10
        ELSE IF engagement >= threshold.warm * EngagementOne THEN 6
        ELSE IF engagement > 0 THEN 3
        ELSE 0

\* getHeatmapColor(intensity), the intensity in tenths.
getHeatmapColor(tenths) ==
    IF tenths >= 8 THEN "#ef4444"
    ELSE IF tenths >= 5 THEN "#f97316"
    ELSE IF tenths >= 2 THEN "#eab308"
    ELSE "#3b82f6"

\* ------------------------------------------------------------------------
\* Inputs
\* ------------------------------------------------------------------------

\* Muscle names as exercise records spell them, and exercise names.
NameChest ==
    <<"c", "h", "e", "s", "t">>

NamePecs ==
    <<"p", "e", "c", "s">>

NameTriceps ==
    <<" ", "T", "r", "i", "c", "e", "p", "s">>

NameNeck ==
    <<"n", "e", "c", "k">>

NameUnknown ==
    <<"x", "y", "z">>

BenchPress ==
    <<"B", "e", "n", "c", "h", " ", "P", "r", "e", "s", "s">>

CableFly ==
    <<"c", "a", "b", "l", "e", " ", "f", "l", "y">>

PushUp ==
    <<"P", "u", "s", "h", " ", "U", "p">>

NeckCurl ==
    <<"N", "e", "c", "k", " ", "C", "u", "r", "l">>

Dips ==
    <<"D", "i", "p", "s">>

\* type TimePeriod = 7 | 14 | 30
TimePeriods ==
    {7, 14, 30}

\* The number of workouts of a history.
MaxWorkouts ==
    2

\* The calendar day the analysis runs on.
Today ==
    40

\* How many days before Today the workouts of a history are dated: today,
\* the boundary day of the shortest period (and of the recency rule) and of
\* the longest period, and the day before each.
DateOffsets ==
    {0, 7, 8, 30, 31}

\* A set as the set editor leaves it.
Set(reps, weight) ==
    [reps |-> reps, weight |-> weight]

\* The logged exercises of the histories: a weighted exercise with a
\* secondary muscle,
LoggedBench ==
    [name |-> BenchPress, primaryMuscles |-> <<NameChest>>,
     secondaryMuscles |-> <<NameTriceps>>,
     sets |-> <<Set(10, 100), Set(10, 100)>>]

\* an exercise whose primary names repeat a group and whose only set has no
\* weight,
LoggedFly ==
    [name |-> CableFly, primaryMuscles |-> <<NameChest, NamePecs>>,
     secondaryMuscles |-> <<>>,
     sets |-> <<Set(10, 0)>>]

\* an exercise that names a group in both lists, repeats a secondary name
\* and has a negative entry,
LoggedPushUp ==
    [name |-> PushUp, primaryMuscles |-> <<NameChest>>,
     secondaryMuscles |-> <<NameTriceps, NameChest, NameTriceps>>,
     sets |-> <<Set(10, 100), Set(-20, 100)>>]

\* and an exercise with no tracked muscle and no sets.
LoggedNeck ==
    [name |-> NeckCurl, primaryMuscles |-> <<NameNeck>>,
     secondaryMuscles |-> <<NameUnknown>>,
     sets |-> <<>>]

\* The exercise lists of the workouts of a history.
ExerciseLists ==
    {<<LoggedBench>>, <<LoggedFly>>, <<LoggedNeck>>,
     <<LoggedPushUp, LoggedBench>>}

\* All sequences over S of length at most n.
SeqUpTo(S, n) ==
    UNION {[1..k -> S] : k \in 0..n}

\* The workouts of a history: a date and at least one exercise.
WorkoutChoices ==
    {[date |-> Today - k, exercises |-> es] :
        k \in DateOffsets, es \in ExerciseLists}

\* The histories: each workout gets its id.
Histories ==
    {[i \in 1..Len(h) |-> [id |-> i, date |-> h[i].date, exercises |-> h[i].exercises]] :
        h \in SeqUpTo(WorkoutChoices, MaxWorkouts)}

\* The number of exercises of a catalog.
MaxCatalog ==
    3

\* The number of target groups of a call of generateSuggestions.
MaxTargets ==
    2

\* The largest limitPerGroup of a call of generateSuggestions.
MaxLimit ==
    2

\* The limits of the calls of generateSuggestions: a negative one, which
\* slice counts from the end of the list, and those from 0 to MaxLimit.
Limits ==
    (-1)..MaxLimit

\* The exercises of the catalogs.
CatalogExercises ==
    {[name |-> BenchPress, primaryMuscles |-> <<NameChest>>,
      secondaryMuscles |-> <<NameTriceps>>],
     [name |-> CableFly, primaryMuscles |-> <<NameChest, NamePecs>>,
      secondaryMuscles |-> <<NameChest>>],
     [name |-> Dips, primaryMuscles |-> <<NameTriceps>>,
      secondaryMuscles |-> <<NamePecs>>]}

\* The groups of the target lists.
TargetGroups ==
    {"chest", "triceps", "calves"}

\* ------------------------------------------------------------------------
\* State
\* ------------------------------------------------------------------------

VARIABLES
    workouts,            \* WorkoutPlanner: the saved history
    timePeriod,          \* WorkoutPlanner: the selected analysis period
    now,                 \* the instant of the render, in ticks
    muscleStats,         \* useMemo: analyzeMuscleGroups(workouts, timePeriod)
    underworkedMuscles,  \* useMemo: getUnderworkedMuscles(muscleStats)
    pc,                  \* whether the analysis has been rendered
    targets,             \* generateSuggestions: underworkedMuscles
    exerciseDB,          \* generateSuggestions: exerciseDB
    limitPerGroup,       \* generateSuggestions: limitPerGroup
    suggestions,         \* the result of generateSuggestions
    spc,                 \* whether generateSuggestions has returned
    muscleName,          \* normalizeMuscleGroup: muscleName
    normalizedGroup,     \* the result of normalizeMuscleGroup
    npc,                 \* whether normalizeMuscleGroup has returned
    exerciseIn,          \* getMuscleGroupsFromExercise: exercise
    classified,          \* the result of getMuscleGroupsFromExercise
    kpc,                 \* whether getMuscleGroupsFromExercise has returned
    heatStat,            \* getHeatmapIntensity: stat
    intensity,           \* the result of getHeatmapIntensity, in tenths
    color,               \* the result of getHeatmapColor
    hpc,                 \* whether the heatmap functions have returned
    otherWorkouts,       \* the workout list of a second call of analyzeMuscleGroups
    otherNow,            \* the instant of the second call
    otherStats,          \* the result of the second call
    cpc,                 \* whether the second call has returned
    counts64,            \* the engagementCount fields of the first result, as binary64
    otherCounts64,       \* the engagementCount fields of the second result, as binary64
    bpc,                 \* whether the binary64 fields have been read
    currentWorkout,      \* WorkoutPlanner: the draft, <<>> for null
    stored,              \* localStorage item 'workoutPlanner', <<>> for none
    storedAtMount,       \* the item as it was before the component mounted
    pending,             \* the setWorkouts update queued by the load effect
    mpc,                 \* how far the mount of WorkoutPlanner has come
    viewMode,            \* WorkoutPlanner: 'workouts' or 'analysis'
    confirm,             \* the confirmation dialog that is open, <<>> for none
    nextId,              \* Date.now() of the next startNewWorkout
    highlighterGroup,    \* the muscle group the heatmap highlights
    highlighterName,     \* the highlighter name of the region clicked
    clickedGroup,        \* the result of getMuscleGroupFromHighlighterName
    gpc                  \* whether the click has been handled

vars ==
    <<workouts, timePeriod, now, muscleStats, underworkedMuscles, pc,
      targets, exerciseDB, limitPerGroup, suggestions, spc,
      muscleName, normalizedGroup, npc, exerciseIn, classified, kpc,
      heatStat, intensity, color, hpc,
      otherWorkouts, otherNow, otherStats, cpc,
      counts64, otherCounts64, bpc,
      currentWorkout, stored, storedAtMount, pending, mpc, viewMode,
      confirm, nextId,
      highlighterGroup, highlighterName, clickedGroup, gpc>>

analysisVars ==
    <<workouts, timePeriod, now, muscleStats, underworkedMuscles, pc>>

suggestVars ==
    <<targets, exerciseDB, limitPerGroup, suggestions, spc>>

muscleVars ==
    <<muscleName, normalizedGroup, npc, exerciseIn, classified, kpc>>

heatVars ==
    <<heatStat, intensity, color, hpc>>

compareVars ==
    <<otherWorkouts, otherNow, otherStats, cpc, counts64, otherCounts64, bpc>>

plannerVars ==
    <<currentWorkout, stored, storedAtMount, pending, mpc, viewMode,
      confirm, nextId>>

highlighterVars ==
    <<highlighterGroup, highlighterName, clickedGroup, gpc>>

\* ------------------------------------------------------------------------
\* The analysis of a history
\* ------------------------------------------------------------------------

AnalysisIdle ==
    /\ muscleStats = <<>>
    /\ underworkedMuscles = <<>>
    /\ pc = "start"

SuggestIdle ==
    /\ targets = <<>>
    /\ exerciseDB = <<>>
    /\ limitPerGroup = 0
    /\ suggestions = <<>>
    /\ spc = "start"

NormalizeIdle ==
    /\ muscleName = <<>>
    /\ normalizedGroup = NullGroup
    /\ npc = "idle"

ClassifyIdle ==
    /\ exerciseIn = [primaryMuscles |-> <<>>, secondaryMuscles |-> <<>>]
    /\ classified = [primary |-> <<>>, secondary |-> <<>>]
    /\ kpc = "idle"

HeatIdle ==
    /\ heatStat = InitialStats[1]
    /\ intensity = 0
    /\ color = ""
    /\ hpc = "idle"

Counts64Idle ==
    /\ counts64 = <<>>
    /\ otherCounts64 = <<>>
    /\ bpc = "idle"

CompareIdle ==
    /\ otherWorkouts = <<>>
    /\ otherNow = 0
    /\ otherStats = <<>>
    /\ cpc = "idle"
    /\ Counts64Idle

PlannerIdle ==
    /\ currentWorkout = <<>>
    /\ stored = <<>>
    /\ storedAtMount = <<>>
    /\ pending = <<>>
    /\ mpc = "idle"
    /\ viewMode = "analysis"
    /\ confirm = <<>>
    /\ nextId = 0

HighlighterIdle ==
    /\ highlighterGroup = NullGroup
    /\ highlighterName = ""
    /\ clickedGroup = NullGroup
    /\ gpc = "idle"

\* No call is pending but those of the analysis and of the suggestions.
OthersIdle ==
    /\ NormalizeIdle /\ ClassifyIdle /\ HeatIdle /\ CompareIdle
    /\ PlannerIdle /\ HighlighterIdle

\* A history, a selected period and an instant of Today.
Init ==
    /\ workouts \in Histories
    /\ timePeriod \in TimePeriods
    /\ now \in {Today * TicksPerDay + t : t \in 0..(TicksPerDay - 1)}
    /\ AnalysisIdle
    /\ SuggestIdle
    /\ OthersIdle

\* A render of WorkoutPlanner at the instant now:
\*   const muscleStats = useMemo(() => analyzeMuscleGroups(workouts, timePeriod))
\*   const underworkedMuscles = useMemo(() => getUnderworkedMuscles(muscleStats))
\* An exception of analyzeMuscleGroups ends the render.
Render ==
    /\ pc = "start"
    /\ IF analyzeMuscleGroupsThrows(workouts, timePeriod, now)
       THEN /\ pc' = "thrown"
            /\ UNCHANGED <<muscleStats, underworkedMuscles>>
       ELSE /\ muscleStats' = analyzeMuscleGroups(workouts, timePeriod, now)
            /\ underworkedMuscles' = getUnderworkedMuscles(muscleStats', now)
            /\ pc' = "done"
    /\ UNCHANGED <<workouts, timePeriod, now, suggestVars, muscleVars,
                   heatVars, compareVars, plannerVars, highlighterVars>>

Next ==
    Render

Spec ==
    Init /\ [][Next]_vars

\* ------------------------------------------------------------------------
\* The suggestions for a target list
\* ------------------------------------------------------------------------

\* A target list, a catalog and a limit.
InitSuggest ==
    /\ workouts = <<>>
    /\ timePeriod = 7
    /\ now = Today * TicksPerDay
    /\ AnalysisIdle
    /\ targets \in SeqUpTo(TargetGroups, MaxTargets)
    /\ exerciseDB \in SeqUpTo(CatalogExercises, MaxCatalog)
    /\ limitPerGroup \in Limits
    /\ suggestions = <<>>
    /\ spc = "start"
    /\ OthersIdle

\* generateSuggestions(targets, exerciseDB, limitPerGroup)
Suggest ==
    /\ spc = "start"
    /\ \E throws \in generateSuggestionsThrows(targets, exerciseDB, limitPerGroup) :
           IF throws
           THEN /\ spc' = "thrown"
                /\ UNCHANGED suggestions
           ELSE /\ suggestions' = generateSuggestions(targets, exerciseDB, limitPerGroup)
                /\ spc' = "done"
    /\ UNCHANGED <<targets, exerciseDB, limitPerGroup, analysisVars,
                   muscleVars, heatVars, compareVars, plannerVars,
                   highlighterVars>>

NextSuggest ==
    Suggest

SpecSuggest ==
    InitSuggest /\ [][NextSuggest]_vars

\* ------------------------------------------------------------------------
\* Properties of analyzeMuscleGroups
\* ------------------------------------------------------------------------

\* The exercises analyzeMuscleGroups does not skip, each with its workout,
\* in the order of the history.
RECURSIVE IncludedExercises(_, _)
IncludedExercises(ws, cutoffDate) ==
    IF ws = <<>> THEN <<>>
    ELSE (IF Skipped(Head(ws), cutoffDate) THEN <<>>
          ELSE [j \in 1..Len(Head(ws).exercises) |->
                   [exercise |-> Head(ws).exercises[j], workout |-> Head(ws)]])
         \o IncludedExercises(Tail(ws), cutoffDate)

\* The included exercises of the state.
Included ==
    IncludedExercises(workouts, SetDateBack(now, timePeriod))

\* The included exercises with their engagement weight and their
\* normalized muscles.
IncludedGroups ==
    LET inc == Included
    IN  [k \in 1..Len(inc) |->
            [exercise |-> inc[k].exercise,
             value    |-> engagementValue(inc[k].exercise),
             mgs      |-> getMuscleGroupsFromExercise(inc[k].exercise),
             workout  |-> inc[k].workout]]

\* How many entries of seq equal x.
CountIn(seq, x) ==
    Cardinality({i \in 1..Len(seq) : seq[i] = x})

RECURSIVE SumSeq(_)
SumSeq(seq) ==
    IF seq = <<>> THEN 0 ELSE Head(seq) + SumSeq(Tail(seq))

\* The exercise names g among its normalized primary or secondary muscles.
Touches(exercise, g) ==
    \/ SeqIncludes(getMuscleGroupsFromExercise(exercise).primary, g)
    \/ SeqIncludes(getMuscleGroupsFromExercise(exercise).secondary, g)

\* The sum of reps * weight over the sets, set by set from the first.
RECURSIVE VolumeOf(_)
VolumeOf(sets) ==
    IF sets = <<>> THEN 0
    ELSE Head(sets).reps * Head(sets).weight + VolumeOf(Tail(sets))

\* C1: after analyzeMuscleGroups the keys of the returned map are exactly
\* the 17 groups of MAJOR_MUSCLE_GROUPS, each once: every MuscleGroup but
\* neck, whatever the workouts name.
C1_ExactlyMajorKeys ==
    pc = "done" =>
        /\ Len(muscleStats) = 17
        /\ {muscleStats[i].muscleGroup : i \in 1..Len(muscleStats)} = MuscleGroup \ {"neck"}
        /\ \A i, j \in 1..Len(muscleStats) :
               muscleStats[i].muscleGroup = muscleStats[j].muscleGroup => i = j

\* C1 witness: the analysis has run over an included exercise that names
\* neck and an unrecognized muscle.
C1_Witness ==
    /\ pc = "done"
    /\ \E k \in 1..Len(Included) :
           /\ Included[k].exercise.primaryMuscles = <<NameNeck>>
           /\ Included[k].exercise.secondaryMuscles = <<NameUnknown>>
           /\ normalizeMuscleGroup(NameNeck) = "neck"
           /\ normalizeMuscleGroup(NameUnknown) = NullGroup

PositiveVolumeWeight(e) ==
    IF VolumeOf(e.sets) > 0
    THEN (VolumeOf(e.sets) * EngagementOne) \div VolumeDivisor
    ELSE EngagementOne

ExpectedEngagement(ig, g) ==
    SumSeq([k \in 1..Len(ig) |->
        ig[k].value * CountIn(ig[k].mgs.primary, g)
        + (ig[k].value \div 2) * CountIn(ig[k].mgs.secondary, g)])

\* C3: the engagementCount of every tracked group is the sum, over the
\* included exercises, of the full engagement weight per primary entry
\* equal to the group and half the weight per secondary entry equal to it.
C3_EngagementIsWeightedSum ==
    pc = "done" =>
        LET ig == IncludedGroups
        IN  \A g \in MajorSet :
                MapGet(muscleStats, g).engagementCount = ExpectedEngagement(ig, g)

\* C3 witness: primary chest, secondary triceps, weight 2.0: chest has
\* gained 2.0 and triceps 1.0.
C3_Witness ==
    /\ pc = "done"
    /\ Len(Included) = 1
    /\ getMuscleGroupsFromExercise(Included[1].exercise) =
           [primary |-> <<"chest">>, secondary |-> <<"triceps">>]
    /\ engagementValue(Included[1].exercise) = 2 * EngagementOne
    /\ MapGet(muscleStats, "chest").engagementCount = 2 * EngagementOne
    /\ MapGet(muscleStats, "triceps").engagementCount = EngagementOne

\* C4 as claimed: the exercise count (field workouts) of every tracked group
\* is the number of included exercises that name the group among their
\* normalized primary or secondary muscles, each exercise counted once.
C4_CountsEachExerciseOnce ==
    pc = "done" =>
        LET ig == IncludedGroups
        IN  \A g \in MajorSet :
                MapGet(muscleStats, g).workouts =
                    Cardinality({k \in 1..Len(ig) :
                                    \/ SeqIncludes(ig[k].mgs.primary, g)
                                    \/ SeqIncludes(ig[k].mgs.secondary, g)})

\* ------------------------------------------------------------------------
\* Properties of the analysis window and of getUnderworkedMuscles
\* ------------------------------------------------------------------------

\* Some workout of the history dated from day on has an exercise that
\* touches g.
TouchedSince(g, day) ==
    \E i \in 1..Len(workouts) :
        /\ workouts[i].date >= day
        /\ \E j \in 1..Len(workouts[i].exercises) :
               Touches(workouts[i].exercises[j], g)

\* C5 as claimed: the window boundary is inclusive by calendar day: a group
\* has a contribution (a last worked date, a positive engagementCount)
\* exactly when a workout dated on the day today - timePeriod or later
\* touches it, whatever the time of day of the call.
C5_BoundaryDayIncluded ==
    pc = "done" =>
        \A g \in MajorSet :
            LET stat == MapGet(muscleStats, g)
            IN  /\ (stat.lastWorkedDate # NullDate)
                       <=> TouchedSince(g, DayOf(now) - timePeriod)
                /\ (stat.engagementCount > 0)
                       <=> TouchedSince(g, DayOf(now) - timePeriod)

\* The dates of the included workouts with an exercise that touches g.
IncludedDates(ig, g) ==
    {ig[k].workout.date : k \in {k \in 1..Len(ig) :
                                    \/ SeqIncludes(ig[k].mgs.primary, g)
                                    \/ SeqIncludes(ig[k].mgs.secondary, g)}}

\* C6: lastWorkedDate of every tracked group is null when no included
\* exercise touches it, and otherwise the latest date among the included
\* workouts with an exercise that touches it as primary or as secondary.
C6_LastWorkedIsLatest ==
    pc = "done" =>
        LET ig == IncludedGroups
        IN  \A g \in MajorSet :
                LET dates == IncludedDates(ig, g)
                    last  == MapGet(muscleStats, g).lastWorkedDate
                IN  IF dates = {} THEN last = NullDate
                    ELSE last \in dates /\ \A d \in dates : d <= last

\* C6 witness: two included workouts of different dates touch triceps, the
\* later one first in the history and only as secondary, and triceps has
\* the later date.
C6_Witness ==
    /\ pc = "done"
    /\ Len(workouts) = 2
    /\ Len(Included) = 2
    /\ workouts[1].date > workouts[2].date
    /\ Touches(workouts[1].exercises[1], "triceps")
    /\ Touches(workouts[2].exercises[1], "triceps")
    /\ ~SeqIncludes(getMuscleGroupsFromExercise(workouts[1].exercises[1]).primary, "triceps")
    /\ MapGet(muscleStats, "triceps").lastWorkedDate = workouts[1].date
    /\ MapGet(muscleStats, "back").lastWorkedDate = NullDate

\* C7 as claimed: getUnderworkedMuscles returns a group exactly when its
\* lastWorkedDate is null or a day before today - 7; a group last worked on
\* a day from today - 7 to today is never returned, whatever the time of
\* day of the call.
C7_UnderworkedByCalendarDay ==
    pc = "done" =>
        \A i \in 1..Len(muscleStats) :
            SeqIncludes(underworkedMuscles, muscleStats[i].muscleGroup)
                <=> \/ muscleStats[i].lastWorkedDate = NullDate
                    \/ muscleStats[i].lastWorkedDate < DayOf(now) - UnderworkedDays

\* getUnderworkedMuscles(analyzeMuscleGroups(workouts, period)) at now.
UnderworkedFor(period) ==
    getUnderworkedMuscles(analyzeMuscleGroups(workouts, period, now), now)

\* C8 as claimed: the underworked list is the same for the periods 7, 14
\* and 30, and a tracked group is in it exactly when no workout of the
\* history dated within the last 7 days (from the day today - 7 on) has an
\* exercise that touches the group.
C8_UnderworkedIffNotTouched ==
    pc = "done" =>
        /\ UnderworkedFor(7) = UnderworkedFor(14)
        /\ UnderworkedFor(14) = UnderworkedFor(30)
        /\ underworkedMuscles = UnderworkedFor(7)
        /\ \A g \in MajorSet :
               SeqIncludes(underworkedMuscles, g)
                   <=> ~TouchedSince(g, DayOf(now) - UnderworkedDays)

\* Supporting C8: the part of the claim the code does satisfy, the list
\* does not depend on the selected period.
C8_SameForEveryPeriod ==
    pc = "done" =>
        /\ UnderworkedFor(7) = UnderworkedFor(14)
        /\ UnderworkedFor(14) = UnderworkedFor(30)
        /\ underworkedMuscles = UnderworkedFor(7)

\* ------------------------------------------------------------------------
\* Properties of generateSuggestions
\* ------------------------------------------------------------------------

\* No entry of the list occurs twice in it.
NoRepeat(list) ==
    \A i, j \in 1..Len(list) : list[i] = list[j] => i = j

\* C9 as claimed: for every target list, catalog and limitPerGroup, each
\* Suggestion has at most limitPerGroup exercises and no exercise twice.
C9_AtMostLimitNoRepeat ==
    spc = "done" =>
        \A s \in 1..Len(suggestions) :
            /\ Len(suggestions[s].exercises) <= limitPerGroup
            /\ NoRepeat(suggestions[s].exercises)

\* C9 amended: for every target list, every catalog that holds no exercise
\* twice and every limitPerGroup >= 0, each Suggestion has at most
\* limitPerGroup exercises and no exercise twice.
C9_AtMostLimitNoRepeatOfDistinct ==
    (spc = "done" /\ limitPerGroup >= 0 /\ NoRepeat(exerciseDB)) =>
        \A s \in 1..Len(suggestions) :
            /\ Len(suggestions[s].exercises) <= limitPerGroup
            /\ NoRepeat(suggestions[s].exercises)

\* C9 witness: a catalog without repeats has more exercises for chest than
\* the limit allows, one of them naming chest as primary and as secondary,
\* and the Suggestion for chest holds limitPerGroup exercises, that one
\* among them.
C9_Witness ==
    /\ spc = "done"
    /\ limitPerGroup = 2
    /\ NoRepeat(exerciseDB)
    /\ Cardinality({i \in 1..Len(exerciseDB) : Touches(exerciseDB[i], "chest")}) > 2
    /\ \E s \in 1..Len(suggestions) :
           /\ suggestions[s].muscleGroup = "chest"
           /\ Len(suggestions[s].exercises) = 2
           /\ \E i \in 1..2 :
                  LET mgs == getMuscleGroupsFromExercise(suggestions[s].exercises[i])
                  IN  SeqIncludes(mgs.primary, "chest") /\ SeqIncludes(mgs.secondary, "chest")

\* The exercise names g among its normalized primary muscles.
IsPrimaryFor(exercise, g) ==
    SeqIncludes(getMuscleGroupsFromExercise(exercise).primary, g)

\* x ranks before y: x names the group as primary and y does not, or they
\* agree on that and the name of x comes first.
RanksBefore(xPrimary, xName, yPrimary, yName) ==
    \/ xPrimary /\ ~yPrimary
    \/ /\ xPrimary <=> yPrimary
       /\ localeCompare(xName, yName) < 0

\* The catalog entries that qualify for g, in catalog order.
Qualifying(db, g) ==
    SelectSeq(db, LAMBDA e : Touches(e, g))

\* C10: in every Suggestion no exercise is preceded by one that ranks after
\* it (primary before secondary only, then ascending name); the exercises
\* are qualifying catalog entries, none more often than the catalog holds
\* it; no qualifying entry left out ranks before an included one; and for
\* limitPerGroup >= 0 the list has limitPerGroup exercises, or all the
\* qualifying ones when they are fewer.
C10_RankedPrefix ==
    spc = "done" =>
        \A s \in 1..Len(suggestions) :
            LET g     == suggestions[s].muscleGroup
                list  == suggestions[s].exercises
                q     == Qualifying(exerciseDB, g)
                listP == [i \in 1..Len(list) |-> IsPrimaryFor(list[i], g)]
                qP    == [k \in 1..Len(q) |-> IsPrimaryFor(q[k], g)]
            IN  /\ \A i, j \in 1..Len(list) :
                       i < j => ~RanksBefore(listP[j], list[j].name, listP[i], list[i].name)
                /\ \A i \in 1..Len(list) :
                       /\ CountIn(q, list[i]) >= 1
                       /\ CountIn(list, list[i]) <= CountIn(q, list[i])
                /\ \A k \in 1..Len(q) :
                       CountIn(list, q[k]) < CountIn(q, q[k]) =>
                           \A i \in 1..Len(list) :
                               ~RanksBefore(qP[k], q[k].name, listP[i], list[i].name)
                /\ limitPerGroup >= 0 =>
                       Len(list) = (IF Len(q) < limitPerGroup THEN Len(q)
                                    ELSE limitPerGroup)

\* C10 witness: the catalog lists Dips, cable fly, Bench Press; with limit
\* 2 the Suggestion for chest is Bench Press, cable fly (Dips, secondary
\* only, left out) and the one for triceps is Dips, Bench Press (primary
\* before secondary against the order of the names).
C10_Witness ==
    /\ spc = "done"
    /\ limitPerGroup = 2
    /\ targets = <<"chest", "triceps">>
    /\ [i \in 1..Len(exerciseDB) |-> exerciseDB[i].name] = <<Dips, CableFly, BenchPress>>
    /\ Len(suggestions) = 2
    /\ [i \in 1..Len(suggestions[1].exercises) |-> suggestions[1].exercises[i].name]
           = <<BenchPress, CableFly>>
    /\ [i \in 1..Len(suggestions[2].exercises) |-> suggestions[2].exercises[i].name]
           = <<Dips, BenchPress>>

\* The entries of the target list that have a qualifying catalog exercise,
\* in the order of the list.
TargetsWithExercise(muscles, db) ==
    SelectSeq(muscles, LAMBDA g : \E i \in 1..Len(db) : Touches(db[i], g))

\* C11: for limitPerGroup >= 1 the Suggestions are, entry by entry and in
\* the order of the target list, those of the targets with at least one
\* catalog exercise whose normalized primary or secondary muscles contain
\* the target: one Suggestion per such entry, none for a target without a
\* qualifying exercise (so none at all for an empty catalog), and no
\* Suggestion has an empty exercise list.
C11_OnePerTargetWithExercise ==
    (spc = "done" /\ limitPerGroup >= 1) =>
        /\ [s \in 1..Len(suggestions) |-> suggestions[s].muscleGroup]
               = TargetsWithExercise(targets, exerciseDB)
        /\ \A s \in 1..Len(suggestions) : Len(suggestions[s].exercises) >= 1
        /\ exerciseDB = <<>> => suggestions = <<>>

\* C11 witness: of the targets calves and triceps only triceps has a
\* catalog exercise, and the one Suggestion returned is for triceps.
C11_Witness ==
    /\ spc = "done"
    /\ limitPerGroup >= 1
    /\ targets = <<"calves", "triceps">>
    /\ exerciseDB # <<>>
    /\ Qualifying(exerciseDB, "calves") = <<>>
    /\ Len(suggestions) = 1
    /\ suggestions[1].muscleGroup = "triceps"

\* ------------------------------------------------------------------------
\* The calls of utils/muscleGroups
\* ------------------------------------------------------------------------

\* The length of the generated muscle names.
MaxNameLen ==
    3

\* The characters of the generated muscle names: white space, a letter of
\* some key, a letter of no key but trapezius, and an upper-case letter.
NameChars ==
    {" ", "a", "z", "S"}

\* Names of muscles as catalogs spell them, or of no muscle.
NameLowerBackMuscles ==
    <<"L", "o", "w", "e", "r", " ", "B", "a", "c", "k", " ", "m", "u", "s", "c", "l", "e", "s">>

NameConstructor ==
    <<"C", "o", "n", "s", "t", "r", "u", "c", "t", "o", "r">>

\* The arguments of the calls of normalizeMuscleGroup: every string over
\* NameChars of at most MaxNameLen characters (the empty string and the
\* white-space-only strings among them) and the names above.
NameInputs ==
    SeqUpTo(NameChars, MaxNameLen)
    \cup {NameChest, NamePecs, NameTriceps, NameNeck, NameUnknown,
          NameLowerBackMuscles, NameConstructor}

\* A muscle name.
InitNormalize ==
    /\ workouts = <<>>
    /\ timePeriod = 7
    /\ now = Today * TicksPerDay
    /\ AnalysisIdle
    /\ SuggestIdle
    /\ PlannerIdle /\ HighlighterIdle
    /\ muscleName \in NameInputs
    /\ normalizedGroup = NullGroup
    /\ npc = "start"
    /\ ClassifyIdle /\ HeatIdle /\ CompareIdle

\* normalizeMuscleGroup(muscleName)
Normalize ==
    /\ npc = "start"
    /\ normalizedGroup' = normalizeMuscleGroup(muscleName)
    /\ npc' = "done"
    /\ UNCHANGED <<muscleName, exerciseIn, classified, kpc, analysisVars,
                   suggestVars, heatVars, compareVars, plannerVars,
                   highlighterVars>>

NextNormalize ==
    Normalize

SpecNormalize ==
    InitNormalize /\ [][NextNormalize]_vars

\* The number of names of a muscle list.
MaxMuscleNames ==
    2

\* The names of the muscle lists.
ClassifyNames ==
    {NameChest, NamePecs, NameTriceps, NameNeck, NameUnknown}

\* An exercise with a primary and a secondary muscle list.
InitClassify ==
    /\ workouts = <<>>
    /\ timePeriod = 7
    /\ now = Today * TicksPerDay
    /\ AnalysisIdle
    /\ SuggestIdle
    /\ PlannerIdle /\ HighlighterIdle
    /\ NormalizeIdle
    /\ exerciseIn \in {[primaryMuscles |-> p, secondaryMuscles |-> s] :
                          p \in SeqUpTo(ClassifyNames, MaxMuscleNames),
                          s \in SeqUpTo(ClassifyNames, MaxMuscleNames)}
    /\ classified = [primary |-> <<>>, secondary |-> <<>>]
    /\ kpc = "start"
    /\ HeatIdle /\ CompareIdle

\* getMuscleGroupsFromExercise(exerciseIn)
Classify ==
    /\ kpc = "start"
    /\ classified' = getMuscleGroupsFromExercise(exerciseIn)
    /\ kpc' = "done"
    /\ UNCHANGED <<exerciseIn, muscleName, normalizedGroup, npc, analysisVars,
                   suggestVars, heatVars, compareVars, plannerVars,
                   highlighterVars>>

NextClassify ==
    Classify

SpecClassify ==
    InitClassify /\ [][NextClassify]_vars

\* ------------------------------------------------------------------------
\* Properties of utils/muscleGroups
\* ------------------------------------------------------------------------

\* C12 as claimed: normalizeMuscleGroup returns a canonical muscle group or
\* null for every string, and null for a name that names no muscle: for the
\* empty string, for a string of white space only, and for a single
\* character.
C12_TotalNullForNoMuscle ==
    npc = "done" =>
        /\ normalizedGroup \in MuscleGroup \cup {NullGroup}
        /\ Len(Trim(muscleName)) <= 1 => normalizedGroup = NullGroup

\* The normalizeMuscleGroup results of a list of names, one per name.
MapNormalize(names) ==
    [i \in 1..Len(names) |-> normalizeMuscleGroup(names[i])]

\* C13: getMuscleGroupsFromExercise returns, for the primary and for the
\* secondary list separately, the normalizeMuscleGroup results of the
\* entries, in the order of the entries, without the null results and with
\* every repeated group kept.
C13_NormalizedInOrderWithRepeats ==
    kpc = "done" =>
        /\ classified.primary =
               SelectSeq(MapNormalize(exerciseIn.primaryMuscles),
                         LAMBDA mg : mg # NullGroup)
        /\ classified.secondary =
               SelectSeq(MapNormalize(exerciseIn.secondaryMuscles),
                         LAMBDA mg : mg # NullGroup)

\* C13 witness: the primary names chest and pecs give chest twice; of the
\* secondary names the unrecognized one is dropped and triceps kept.
C13_Witness ==
    /\ kpc = "done"
    /\ exerciseIn.primaryMuscles = <<NameChest, NamePecs>>
    /\ exerciseIn.secondaryMuscles = <<NameUnknown, NameTriceps>>
    /\ classified = [primary |-> <<"chest", "chest">>, secondary |-> <<"triceps">>]

\* ------------------------------------------------------------------------
\* Malformed entries
\* ------------------------------------------------------------------------

\* Catalog entries as a fetched catalog can hold them: a well-formed one,
\* two without a name, one without primaryMuscles and one without
\* secondaryMuscles.
MalformedExercises ==
    {[name |-> BenchPress, primaryMuscles |-> <<NameChest>>,
      secondaryMuscles |-> <<NameTriceps>>],
     [primaryMuscles |-> <<NameChest>>, secondaryMuscles |-> <<>>],
     [primaryMuscles |-> <<NamePecs>>, secondaryMuscles |-> <<NameTriceps>>],
     [name |-> Dips, secondaryMuscles |-> <<NamePecs>>],
     [name |-> CableFly, primaryMuscles |-> <<NameChest>>]}

\* A catalog entry logged without a first set.
LoggedWithoutSets(exercise) ==
    [p \in DOMAIN exercise \cup {"sets"} |->
        IF p = "sets" THEN <<>> ELSE exercise[p]]

\* A catalog entry as addExercise and addExerciseToWorkout log it:
\* { ...exercise, sets: [{ reps: 10, weight: 0 }] }
Logged(exercise) ==
    [p \in DOMAIN exercise \cup {"sets"} |->
        IF p = "sets" THEN <<Set(10, 0)>> ELSE exercise[p]]

\* The histories with malformed entries: none, or one workout, of today or
\* of a day before every period, with one logged exercise.
MalformedHistories ==
    {<<>>}
    \cup {<<[id |-> 1, date |-> Today - k, exercises |-> <<Logged(e)>>]>> :
             k \in {0, 31}, e \in MalformedExercises}

\* A history, a target list and a catalog that can hold malformed entries.
InitMalformed ==
    /\ workouts \in MalformedHistories
    /\ timePeriod = 7
    /\ now = Today * TicksPerDay + 1
    /\ AnalysisIdle
    /\ targets \in {<<>>, <<"chest">>}
    /\ exerciseDB \in SeqUpTo(MalformedExercises, MaxCatalog)
    /\ limitPerGroup = MaxLimit
    /\ suggestions = <<>>
    /\ spc = "start"
    /\ OthersIdle

NextMalformed ==
    \/ Render
    \/ Suggest

SpecMalformed ==
    InitMalformed /\ [][NextMalformed]_vars

\* C14 as claimed: with an exercise that has no name or no primary or
\* secondary muscle list in the history or in the catalog, neither
\* analyzeMuscleGroups nor generateSuggestions throws.
C14_MalformedNeverThrows ==
    pc # "thrown" /\ spc # "thrown"

\* ------------------------------------------------------------------------
\* The heatmap
\* ------------------------------------------------------------------------

\* The engagement counts of the stats of the heatmap, in whole units: zero,
\* the thresholds of the three periods, and counts between and above them.
HeatLevels ==
    {0, 1, 2, 3, 4, 6, 8, 12, 24, 25}

\* A stat whose engagementCount is at a level, or the smallest unit of the
\* model under or over it, and a period.
InitHeat ==
    /\ workouts = <<>>
    /\ timePeriod \in TimePeriods
    /\ now = Today * TicksPerDay
    /\ AnalysisIdle
    /\ SuggestIdle
    /\ PlannerIdle /\ HighlighterIdle
    /\ NormalizeIdle /\ ClassifyIdle /\ CompareIdle
    /\ heatStat \in {[muscleGroup     |-> "chest",
                      engagementCount |-> level * EngagementOne + d,
                      lastWorkedDate  |-> Today,
                      workouts        |-> 1] :
                        level \in HeatLevels, d \in {-1, 0, 1}}
    /\ intensity = 0
    /\ color = ""
    /\ hpc = "start"

\* BodyHeatmap: getHeatmapIntensity(stat, timePeriod), then
\* getHeatmapColor(intensity).
Heat ==
    /\ hpc = "start"
    /\ intensity' = getHeatmapIntensity(heatStat, timePeriod)
    /\ color' = getHeatmapColor(intensity')
    /\ hpc' = "done"
    /\ UNCHANGED <<heatStat, analysisVars, suggestVars, muscleVars, compareVars,
                   plannerVars, highlighterVars>>

NextHeat ==
    Heat

SpecHeat ==
    InitHeat /\ [][NextHeat]_vars

\* C15: with the (hot, warm) thresholds (6, 2), (12, 4) and (24, 8) of the
\* periods 7, 14 and 30, the intensity is 1.0 when engagementCount >= hot,
\* else 0.6 when engagementCount >= warm, else 0.3 when engagementCount > 0,
\* else 0.0, and the colour is the hot, warm, cool and cold colour
\* respectively.
C15_IntensityAndColourBands ==
    hpc = "done" =>
        LET e    == heatStat.engagementCount
            hot  == CASE timePeriod = 7 -> 6 [] timePeriod = 14 -> 12 [] timePeriod = 30 -> 24
            warm == CASE timePeriod = 7 -> 2 [] timePeriod = 14 -> 4 [] timePeriod = 30 -> 8
        IN  /\ e >= hot * EngagementOne => intensity = 10 /\ color = "#ef4444"
            /\ (e < hot * EngagementOne /\ e >= warm * EngagementOne)
                   => intensity = 6 /\ color = "#f97316"
            /\ (e < warm * EngagementOne /\ e > 0)
                   => intensity = 3 /\ color = "#eab308"
            /\ e <= 0 => intensity = 0 /\ color = "#3b82f6"

\* C15 witness: for the period 14 a stat with an engagementCount of exactly
\* 12 is hot.
C15_Witness ==
    /\ hpc = "done"
    /\ timePeriod = 14
    /\ heatStat.engagementCount = 12 * EngagementOne
    /\ intensity = 10
    /\ color = "#ef4444"

\* ------------------------------------------------------------------------
\* Two calls of analyzeMuscleGroups
\* ------------------------------------------------------------------------

\* An exercise with no tracked muscle (neck and an unrecognized name) and a
\* logged set.
LoggedNeckRaise ==
    [name |-> NeckCurl, primaryMuscles |-> <<NameNeck>>,
     secondaryMuscles |-> <<NameUnknown, NameNeck>>,
     sets |-> <<Set(10, 100)>>]

\* The workouts of the lists of two calls: of today, of the boundary day of
\* the shortest period and of a day before every period.
CompareWorkouts ==
    {[date |-> Today - k, exercises |-> es] :
        k \in {0, 7, 31},
        es \in {<<LoggedBench>>, <<LoggedPushUp, LoggedNeck>>}}

\* A workout list with the ids of its workouts.
WithIds(h) ==
    [i \in 1..Len(h) |-> [id |-> i, date |-> h[i].date, exercises |-> h[i].exercises]]

CompareHistories ==
    {WithIds(h) : h \in SeqUpTo(CompareWorkouts, MaxWorkouts)}

\* The instants of the day Today.
InstantsOfToday ==
    {Today * TicksPerDay + t : t \in 0..(TicksPerDay - 1)}

\* The second call of analyzeMuscleGroups, after the render: on
\* otherWorkouts, with the same period, at the instant otherNow.
AnalyzeOther ==
    /\ pc = "done"
    /\ cpc = "start"
    /\ IF analyzeMuscleGroupsThrows(otherWorkouts, timePeriod, otherNow)
       THEN /\ cpc' = "thrown"
            /\ UNCHANGED otherStats
       ELSE /\ otherStats' = analyzeMuscleGroups(otherWorkouts, timePeriod, otherNow)
            /\ cpc' = "done"
    /\ UNCHANGED <<otherWorkouts, otherNow, counts64, otherCounts64, bpc,
                   analysisVars, suggestVars, muscleVars, heatVars,
                   plannerVars, highlighterVars>>

NextCompare ==
    \/ Render
    \/ AnalyzeOther

\* The second list is the first with one more workout.
IsGrown ==
    /\ Len(otherWorkouts) = Len(workouts) + 1
    /\ SubSeq(otherWorkouts, 1, Len(workouts)) = workouts
    /\ otherNow = now

\* A workout list, and the list with one more workout.
InitGrow ==
    /\ workouts \in {h \in CompareHistories : Len(h) < MaxWorkouts}
    /\ timePeriod \in TimePeriods
    /\ now \in InstantsOfToday
    /\ AnalysisIdle
    /\ SuggestIdle
    /\ PlannerIdle /\ HighlighterIdle
    /\ NormalizeIdle /\ ClassifyIdle /\ HeatIdle
    /\ otherWorkouts \in {WithIds(Append(workouts, w)) : w \in CompareWorkouts}
    /\ otherNow = now
    /\ otherStats = <<>>
    /\ cpc = "start"
    /\ Counts64Idle

SpecGrow ==
    InitGrow /\ [][NextCompare]_vars

\* Every stat has a non-negative engagementCount and exercise count.
NonNegative(stats) ==
    \A i \in 1..Len(stats) :
        /\ stats[i].engagementCount >= 0
        /\ stats[i].workouts >= 0

\* C16: every stat analyzeMuscleGroups returns has engagementCount >= 0 and
\* exercise count >= 0, whatever the set values, and with one more workout
\* in the list no group's engagementCount or exercise count is smaller.
C16_NonNegativeAndMonotone ==
    /\ pc = "done" => NonNegative(muscleStats)
    /\ cpc = "done" => NonNegative(otherStats)
    /\ (cpc = "done" /\ IsGrown) =>
           \A g \in MajorSet :
               /\ MapGet(otherStats, g).engagementCount
                      >= MapGet(muscleStats, g).engagementCount
               /\ MapGet(otherStats, g).workouts >= MapGet(muscleStats, g).workouts

\* C16 witness: the added workout is within the period and has an exercise
\* of negative volume for chest, and chest has gained engagement and an
\* exercise.
C16_Witness ==
    /\ cpc = "done"
    /\ IsGrown
    /\ Len(workouts) >= 1
    /\ LET added == otherWorkouts[Len(otherWorkouts)]
       IN  /\ ~Skipped(added, SetDateBack(now, timePeriod))
           /\ VolumeOf(added.exercises[1].sets) < 0
           /\ Touches(added.exercises[1], "chest")
    /\ MapGet(muscleStats, "chest").engagementCount > 0
    /\ MapGet(otherStats, "chest").engagementCount
           > MapGet(muscleStats, "chest").engagementCount
    /\ MapGet(otherStats, "chest").workouts > MapGet(muscleStats, "chest").workouts

\* The second call has the list and the calendar day of the first.
IsRepeated ==
    /\ otherWorkouts = workouts
    /\ DayOf(otherNow) = DayOf(now)

\* A workout list and two instants of the day Today.
InitAgain ==
    /\ workouts \in CompareHistories
    /\ timePeriod \in TimePeriods
    /\ now \in InstantsOfToday
    /\ AnalysisIdle
    /\ SuggestIdle
    /\ PlannerIdle /\ HighlighterIdle
    /\ NormalizeIdle /\ ClassifyIdle /\ HeatIdle
    /\ otherWorkouts = workouts
    /\ otherNow \in InstantsOfToday
    /\ otherStats = <<>>
    /\ cpc = "start"
    /\ Counts64Idle

SpecAgain ==
    InitAgain /\ [][NextCompare]_vars

\* C18 as claimed: two calls of analyzeMuscleGroups with the same workout
\* list and the same period, at any two instants of one calendar day, return
\* equal maps, and the list is after the first call what it was before.
C18_SameDaySameResult ==
    /\ [][workouts' = workouts]_vars
    /\ [](cpc = "done" /\ IsRepeated => otherStats = muscleStats)

\* Supporting C18: what the code does satisfy.  Two calls at the same
\* instant return equal maps, and no call changes the workout list.
C18_SameInstantSameResult ==
    /\ [][workouts' = workouts]_vars
    /\ [](cpc = "done" /\ otherWorkouts = workouts /\ otherNow = now
              => otherStats = muscleStats)

\* ------------------------------------------------------------------------
\* Further properties of the analysis of a history
\* ------------------------------------------------------------------------

\* C19: after the render of an empty history, whatever the period, each of
\* the 17 stats has engagementCount 0, exercise count 0 and lastWorkedDate
\* null, and getUnderworkedMuscles has returned all 17 groups in the order
\* of MAJOR_MUSCLE_GROUPS.
C19_EmptyHistoryAllUnderworked ==
    (pc = "done" /\ workouts = <<>>) =>
        /\ Len(muscleStats) = 17
        /\ \A i \in 1..Len(muscleStats) :
               /\ muscleStats[i].engagementCount = 0
               /\ muscleStats[i].workouts = 0
               /\ muscleStats[i].lastWorkedDate = NullDate
        /\ underworkedMuscles =
               <<"chest", "back", "shoulders", "biceps", "triceps", "forearms",
                 "abdominals", "quadriceps", "hamstrings", "glutes", "calves",
                 "traps", "lats", "middle back", "lower back", "adductors",
                 "abductors">>

\* C19 witness: the empty history has been rendered for the period 30 and
\* 17 groups are underworked.
C19_Witness ==
    /\ pc = "done"
    /\ workouts = <<>>
    /\ timePeriod = 30
    /\ Len(underworkedMuscles) = 17
    /\ underworkedMuscles[1] = "chest"
    /\ underworkedMuscles[17] = "abductors"

\* The exercises with no tracked muscle.
InertExercises ==
    {LoggedNeck, LoggedNeckRaise}

\* The list es with e inserted behind its first k entries.
InsertAt(es, k, e) ==
    SubSeq(es, 1, k) \o <<e>> \o SubSeq(es, k + 1, Len(es))

\* The list es without its k-th entry.
RemoveAt(es, k) ==
    SubSeq(es, 1, k - 1) \o SubSeq(es, k + 1, Len(es))

\* None of the exercise's muscle names is recognized as a tracked group:
\* each normalizes to null or to neck.
Inert(exercise) ==
    \A mg \in {normalizeMuscleGroup(exercise.primaryMuscles[i]) :
                  i \in 1..Len(exercise.primaryMuscles)}
              \cup {normalizeMuscleGroup(exercise.secondaryMuscles[i]) :
                       i \in 1..Len(exercise.secondaryMuscles)} :
        mg \in {NullGroup, "neck"}

\* The second list is the first without one exercise of it, an inert one.
IsWithoutInert ==
    /\ otherNow = now
    /\ \E i \in 1..Len(workouts) :
           \E k \in 1..Len(workouts[i].exercises) :
               /\ Inert(workouts[i].exercises[k])
               /\ otherWorkouts =
                      [workouts EXCEPT ![i].exercises = RemoveAt(@, k)]

\* A workout list with an inert exercise somewhere in one of its workouts,
\* and the list without that exercise.
InitInert ==
    /\ otherWorkouts \in CompareHistories \ {<<>>}
    /\ workouts \in
           UNION {{[otherWorkouts EXCEPT ![i].exercises = InsertAt(@, k, e)] :
                      k \in 0..Len(otherWorkouts[i].exercises),
                      e \in InertExercises} :
                  i \in 1..Len(otherWorkouts)}
    /\ timePeriod \in TimePeriods
    /\ now \in InstantsOfToday
    /\ otherNow = now
    /\ AnalysisIdle
    /\ SuggestIdle
    /\ PlannerIdle /\ HighlighterIdle
    /\ NormalizeIdle /\ ClassifyIdle /\ HeatIdle
    /\ otherStats = <<>>
    /\ cpc = "start"
    /\ Counts64Idle

SpecInert ==
    InitInert /\ [][NextCompare]_vars

\* C20: an exercise none of whose primary or secondary muscle names is
\* recognized, or whose names all normalize to neck, leaves every stat as it
\* is without that exercise: the maps of the list with it and of the list
\* without it are equal (engagementCount, exercise count and lastWorkedDate
\* of every group).
C20_InertExerciseChangesNothing ==
    (cpc = "done" /\ IsWithoutInert) => muscleStats = otherStats

\* C20 witness: a workout within the period has an exercise for neck and an
\* unrecognized muscle, with a logged set, ahead of an exercise for chest;
\* the map is the one of the list without it, and chest has engagement.
C20_Witness ==
    /\ cpc = "done"
    /\ IsWithoutInert
    /\ \E i \in 1..Len(workouts) :
           /\ ~Skipped(workouts[i], SetDateBack(now, timePeriod))
           /\ Len(workouts[i].exercises) >= 2
           /\ workouts[i].exercises[1] = LoggedNeckRaise
           /\ VolumeOf(workouts[i].exercises[1].sets) > 0
           /\ Touches(workouts[i].exercises[2], "chest")
    /\ muscleStats = otherStats
    /\ MapGet(muscleStats, "chest").engagementCount > 0

\* ------------------------------------------------------------------------
\* The order of the workouts
\* ------------------------------------------------------------------------

\* Exercises whose normalized volumes are no binary fractions: a fly logged
\* with 15 x 10, its two primary names both chest (0.15 twice),
LoggedLightFly ==
    [name |-> CableFly, primaryMuscles |-> <<NameChest, NamePecs>>,
     secondaryMuscles |-> <<>>,
     sets |-> <<Set(15, 10)>>]

\* and a press logged with 10 x 170 (1.7 for chest, 0.85 for triceps).
LoggedHeavyPress ==
    [name |-> BenchPress, primaryMuscles |-> <<NameChest>>,
     secondaryMuscles |-> <<NameTriceps>>,
     sets |-> <<Set(10, 170)>>]

\* The workouts of the permuted lists: of today and of the boundary day of
\* the shortest period.
PermuteWorkouts ==
    {[date |-> Today - k, exercises |-> es] :
        k \in {0, 7},
        es \in {<<LoggedLightFly>>, <<LoggedHeavyPress>>, <<LoggedBench>>}}

\* The lists with the workouts of ws in another order (or the same).
PermutationsOf(ws) ==
    {[i \in 1..Len(ws) |-> ws[p[i]]] :
        p \in {q \in [1..Len(ws) -> 1..Len(ws)] :
                  \A i, j \in 1..Len(ws) : q[i] = q[j] => i = j}}

\* The second list is a permutation of the first, analysed at the same
\* instant.
IsPermuted ==
    /\ otherNow = now
    /\ otherWorkouts \in PermutationsOf(workouts)

\* A workout list and a permutation of it.
InitPermute ==
    /\ workouts \in {WithIds(h) : h \in SeqUpTo(PermuteWorkouts, MaxWorkouts)}
    /\ timePeriod \in TimePeriods
    /\ now = Today * TicksPerDay + 1
    /\ AnalysisIdle
    /\ SuggestIdle
    /\ PlannerIdle /\ HighlighterIdle
    /\ NormalizeIdle /\ ClassifyIdle /\ HeatIdle
    /\ otherWorkouts \in PermutationsOf(workouts)
    /\ otherNow = now
    /\ otherStats = <<>>
    /\ cpc = "start"
    /\ counts64 = <<>>
    /\ otherCounts64 = <<>>
    /\ bpc = "start"

\* The engagementCount fields of the two results, read as the binary64
\* numbers the two calls have accumulated.
ReadCounts64 ==
    /\ cpc = "done"
    /\ bpc = "start"
    /\ counts64' = engagementCounts64(workouts, timePeriod, now)
    /\ otherCounts64' = engagementCounts64(otherWorkouts, timePeriod, otherNow)
    /\ bpc' = "done"
    /\ UNCHANGED <<otherWorkouts, otherNow, otherStats, cpc, analysisVars,
                   suggestVars, muscleVars, heatVars, plannerVars,
                   highlighterVars>>

NextPermute ==
    \/ Render
    \/ AnalyzeOther
    \/ ReadCounts64

SpecPermute ==
    InitPermute /\ [][NextPermute]_vars

\* C17 as claimed: for a workout list and a permutation of it,
\* analyzeMuscleGroups returns the same engagementCount, the same exercise
\* count and the same lastWorkedDate for every muscle group.
C17_OrderIndependent ==
    (bpc = "done" /\ IsPermuted) =>
        \A g \in MajorSet :
            /\ counts64[g] = otherCounts64[g]
            /\ MapGet(muscleStats, g).workouts = MapGet(otherStats, g).workouts
            /\ MapGet(muscleStats, g).lastWorkedDate
                   = MapGet(otherStats, g).lastWorkedDate

\* Supporting C17: what the code does satisfy.  The exercise count and the
\* lastWorkedDate of every group are the same for a permutation, and so is
\* the engagementCount as a sum of real numbers, before the rounding of the
\* additions.
C17_OrderIndependentBeforeRounding ==
    (cpc = "done" /\ IsPermuted) => otherStats = muscleStats

\* ------------------------------------------------------------------------
\* The number fields of the set editor
\* ------------------------------------------------------------------------

\* The numbers parseInt and parseFloat return: a finite number, which the
\* typed values below make an integer (they hold no fraction and no
\* exponent), NaN or an infinity.
Finite(n) ==
    [kind |-> "finite", value |-> n]

NaN ==
    [kind |-> "NaN", value |-> 0]

Infinity ==
    [kind |-> "Infinity", value |-> 1]

NegativeInfinity ==
    [kind |-> "Infinity", value |-> -1]

isNaN(x) ==
    x.kind = "NaN"

isFinite(x) ==
    x.kind = "finite"

DecimalDigits ==
    <<"0", "1", "2", "3", "4", "5", "6", "7", "8", "9">>

IsDigit(c) ==
    \E i \in 1..Len(DecimalDigits) : DecimalDigits[i] = c

DigitValue(c) ==
    (CHOOSE i \in 1..Len(DecimalDigits) : DecimalDigits[i] = c) - 1

\* The string without its leading white space.
TrimStart(s) ==
    LET idx == {i \in 1..Len(s) : ~IsWhiteSpace(s[i])}
    IN  IF idx = {} THEN <<>>
        ELSE SubSeq(s, CHOOSE i \in idx : \A j \in idx : i <= j, Len(s))

\* The length of the longest prefix of s made of digits.
DigitPrefixLen(s) ==
    LET stops == {i \in 1..Len(s) : ~IsDigit(s[i])}
    IN  IF stops = {} THEN Len(s)
        ELSE (CHOOSE i \in stops : \A j \in stops : i <= j) - 1

\* The value of a string of digits.
RECURSIVE DigitsValue(_)
DigitsValue(digits) ==
    IF digits = <<>> THEN 0
    ELSE 10 * DigitsValue(SubSeq(digits, 1, Len(digits) - 1))
         + DigitValue(digits[Len(digits)])

\* The sign a numeric string starts with, and the string after it.
SignOf(s) ==
    IF s # <<>> /\ s[1] = "-" THEN -1 ELSE 1

AfterSign(s) ==
    IF s # <<>> /\ s[1] \in {"-", "+"} THEN Tail(s) ELSE s

\* parseInt(value, 10): leading white space is skipped, then a sign and the
\* longest run of digits are read; NaN when there is no digit.
parseInt(value) ==
    LET s == TrimStart(value)
        body == AfterSign(s)
        n == DigitPrefixLen(body)
    IN  IF n = 0 THEN NaN
        ELSE Finite(SignOf(s) * DigitsValue(SubSeq(body, 1, n)))

InfinityLiteral ==
    <<"I", "n", "f", "i", "n", "i", "t", "y">>

StartsWith(s, prefix) ==
    /\ Len(prefix) <= Len(s)
    /\ SubSeq(s, 1, Len(prefix)) = prefix

\* parseFloat(value): leading white space is skipped, then the longest
\* prefix that is a decimal literal is read: a sign and either Infinity or
\* digits; NaN when there is neither.
parseFloat(value) ==
    LET s == TrimStart(value)
        body == AfterSign(s)
        n == DigitPrefixLen(body)
    IN  IF StartsWith(body, InfinityLiteral)
        THEN IF SignOf(s) = 1 THEN Infinity ELSE NegativeInfinity
        ELSE IF n = 0 THEN NaN
        ELSE Finite(SignOf(s) * DigitsValue(SubSeq(body, 1, n)))

\* The set editor's fields.
SetFields ==
    {"reps", "weight"}

\* updateSet / updateSetInWorkout on one set: the empty string and a lone
\* minus sign store 0, a string that parses to a finite number stores the
\* number, any other string leaves the field as it is.
UpdatedSet(set, field, value) ==
    IF value = <<>> \/ value = <<"-">>
    THEN [set EXCEPT ![field] = 0]
    ELSE LET numValue == IF field = "reps" THEN parseInt(value)
                         ELSE parseFloat(value)
         IN  IF ~isNaN(numValue) /\ isFinite(numValue)
             THEN [set EXCEPT ![field] = numValue.value]
             ELSE set

\* updated.exercises[exerciseIndex].sets[setIndex][field] = ...
UpdatedExercises(exercises, exerciseIndex, setIndex, field, value) ==
    [exercises EXCEPT ![exerciseIndex].sets[setIndex] =
        UpdatedSet(@, field, value)]

\* addSet / addSetToWorkout:
\*   const lastSet = updated.exercises[exerciseIndex].sets.slice(-1)[0]
\*   updated.exercises[exerciseIndex].sets.push({ ...lastSet })
WithSetAdded(exercises, exerciseIndex) ==
    LET sets == exercises[exerciseIndex].sets
        lastSet == IF sets = <<>> THEN <<>> ELSE sets[Len(sets)]
    IN  [exercises EXCEPT ![exerciseIndex].sets = Append(sets, lastSet)]

\* ------------------------------------------------------------------------
\* WorkoutPlanner: the draft, the history and its stored copy
\* ------------------------------------------------------------------------

\* JSON.stringify({ workouts }): a text that JSON.parse reads back as an
\* object with the property workouts.  The fields of a history are strings
\* and finite numbers (updateSet stores no other number), which the text
\* holds as they are.
JSONStringify(history) ==
    [parses |-> TRUE, hasWorkouts |-> TRUE, workouts |-> history]

\* A text JSON.parse throws on, and the text of an object without the
\* property workouts.
CorruptText ==
    [parses |-> FALSE, hasWorkouts |-> FALSE, workouts |-> <<>>]

EmptyObjectText ==
    [parses |-> TRUE, hasWorkouts |-> FALSE, workouts |-> <<>>]

\* The load effect, on the item localStorage.getItem returned: the history
\* it hands to setWorkouts, <<h>>, or <<>> when it hands none (no item, or
\* JSON.parse threw and the error was logged).
LoadedHistory(item) ==
    IF item = <<>> THEN <<>>
    ELSE IF ~item[1].parses THEN <<>>
    ELSE IF item[1].hasWorkouts THEN <<item[1].workouts>>
    ELSE << <<>> >>

\* The effects of WorkoutPlanner that touch localStorage, in the order the
\* component declares them, which is the order a commit runs them in.
MountEffectsSaveFirst ==
    <<"save", "load">>

MountEffects ==
    <<"load", "save">>

\* The history a saveWorkout of the draft leaves.
SavedHistoryInFront(history, draft) ==
    <<draft>> \o history

SavedHistory(history, draft) ==
    Append(history, draft)

\* hasAnalysisData: a workout of the history is dated at or after the
\* instant timePeriod days before now.
hasAnalysisData(history, period, instant) ==
    LET cutoffDate == SetDateBack(instant, period)
    IN  \E i \in 1..Len(history) : DateValue(history[i].date) >= cutoffDate

\* The workouts of a history, the arguments of the callback of a map.
WorkoutsOf(history) ==
    {history[i] : i \in 1..Len(history)}

\* A map over the history that updates every workout, not only the one
\* whose id is workoutId.
MapEveryWorkout(history, workoutId, f) ==
    [i \in 1..Len(history) |-> f[history[i]]]

\* workouts.map(w => w.id === workoutId ? f(w) : w)
MapWorkout(history, workoutId, f) ==
    [i \in 1..Len(history) |->
        IF history[i].id = workoutId THEN f[history[i]] ELSE history[i]]

\* updated.exercises.splice(exerciseIndex, 1)
Spliced(exercises, exerciseIndex) ==
    IF exerciseIndex \in 1..Len(exercises)
    THEN RemoveAt(exercises, exerciseIndex)
    ELSE exercises

\* The catalog the planner fetched: none of its exercises was left after
\* the filter, or one was.
PlannerCatalog ==
    <<[name |-> BenchPress, primaryMuscles |-> <<NameChest>>,
       secondaryMuscles |-> <<NameTriceps>>]>>

PlannerCatalogs ==
    {<<>>, PlannerCatalog}

\* The histories found in localStorage: none, or a workout of an earlier
\* session, dated eight days ago.
StoredWorkout(id, date) ==
    [id |-> id, date |-> date, exercises |-> <<Logged(PlannerCatalog[1])>>]

StoredHistories ==
    {<<>>, <<StoredWorkout(1, Today - 8)>>}

\* The items found in localStorage at mount.
StoredItems ==
    {<<>>, <<CorruptText>>, <<EmptyObjectText>>}
    \cup {<<JSONStringify(h)>> : h \in StoredHistories}

\* The largest id of a stored workout: Date.now() has passed it.
LastStoredId ==
    Len(CHOOSE h \in StoredHistories : \A g \in StoredHistories : Len(g) <= Len(h))

\* The number of calls of startNewWorkout in a session.
MaxDrafts ==
    1

\* The number of sets a session holds, in the draft and the history
\* together, and the number of their fields that hold another value than
\* the one addExercise gave them.
MaxLoggedSets ==
    2

MaxEditedFields ==
    1

RECURSIVE SetsOfExercises(_)
SetsOfExercises(exercises) ==
    IF exercises = <<>> THEN <<>>
    ELSE Head(exercises).sets \o SetsOfExercises(Tail(exercises))

RECURSIVE SetsOfHistory(_)
SetsOfHistory(history) ==
    IF history = <<>> THEN <<>>
    ELSE SetsOfExercises(Head(history).exercises) \o SetsOfHistory(Tail(history))

\* The sets of the history and of the draft.
LoggedSets(history, draft) ==
    SetsOfHistory(history \o draft)

EditedFields(history, draft) ==
    LET sets == LoggedSets(history, draft)
    IN  Cardinality({<<k, f>> \in (1..Len(sets)) \X SetFields :
                        sets[k][f] # Set(10, 0)[f]})

\* The session has room for one more set.
RoomForSet ==
    Len(LoggedSets(workouts, currentWorkout)) < MaxLoggedSets

\* The dates the date field of the draft is set to.
DraftDates ==
    {Today - 8, Today}

\* The strings typed into the number fields of a set.
TypedValues ==
    {<<>>, <<"-">>, <<" ", "-", "5", "k">>, <<"x">>, InfinityLiteral}

ViewModes ==
    {"workouts", "analysis"}

\* The component before its first commit: useState([]), useState(null),
\* useState('workouts'), useState(7), and the item in localStorage.
InitPlanner ==
    /\ workouts = <<>>
    /\ timePeriod = 7
    /\ now = Today * TicksPerDay
    /\ AnalysisIdle
    /\ targets = <<>>
    /\ exerciseDB \in PlannerCatalogs
    /\ limitPerGroup = 0
    /\ suggestions = <<>>
    /\ spc = "start"
    /\ NormalizeIdle /\ ClassifyIdle /\ HeatIdle /\ CompareIdle
    /\ HighlighterIdle
    /\ currentWorkout = <<>>
    /\ stored \in StoredItems
    /\ storedAtMount = stored
    /\ pending = <<>>
    /\ mpc = "effect1"
    /\ viewMode = "workouts"
    /\ confirm = <<>>
    /\ nextId = LastStoredId + 1

\* What no action of the planner changes.
PlannerFrame ==
    UNCHANGED <<now, muscleStats, underworkedMuscles, pc, targets, exerciseDB,
                limitPerGroup, suggestions, spc, muscleVars, heatVars,
                compareVars, highlighterVars>>

\* The effect that runs next in the commit of the mount.
EffectDue ==
    IF mpc = "effect1" THEN MountEffects[1]
    ELSE IF mpc = "effect2" THEN MountEffects[2]
    ELSE "none"

\* After an effect of the mount: the next effect, then the render of the
\* queued state update if there is one.
AfterEffect(queued) ==
    IF mpc = "effect1" THEN "effect2"
    ELSE IF queued = <<>> THEN "mounted" ELSE "render"

\* storedAtMount is kept until the mount has settled.
KeptUntilMounted ==
    storedAtMount' = IF mpc' = "mounted" THEN <<>> ELSE storedAtMount

\* useEffect(() => { const saved = localStorage.getItem('workoutPlanner');
\*                   if (saved) { try { setWorkouts(...) } catch ... } }, [])
LoadEffect ==
    /\ EffectDue = "load"
    /\ pending' = LoadedHistory(stored)
    /\ mpc' = AfterEffect(pending')
    /\ KeptUntilMounted
    /\ UNCHANGED <<workouts, stored, timePeriod, currentWorkout, viewMode,
                   confirm, nextId>>
    /\ PlannerFrame

\* useEffect(() => { localStorage.setItem('workoutPlanner',
\*                   JSON.stringify({ workouts })) }, [workouts])
SaveEffect ==
    /\ EffectDue = "save"
    /\ stored' = <<JSONStringify(workouts)>>
    /\ mpc' = AfterEffect(pending)
    /\ KeptUntilMounted
    /\ UNCHANGED <<workouts, pending, timePeriod, currentWorkout, viewMode,
                   confirm, nextId>>
    /\ PlannerFrame

\* setWorkouts(history): the render with the new history, after which the
\* save effect runs, workouts being among its dependencies.
SetWorkouts(history) ==
    /\ workouts' = history
    /\ stored' = <<JSONStringify(history)>>

\* The render of the update the load effect queued.
Rerender ==
    /\ mpc = "render"
    /\ SetWorkouts(pending[1])
    /\ pending' = <<>>
    /\ mpc' = "mounted"
    /\ KeptUntilMounted
    /\ UNCHANGED <<timePeriod, currentWorkout, viewMode, confirm, nextId>>
    /\ PlannerFrame

\* The component is mounted and no confirmation dialog covers it.
Ready ==
    /\ mpc = "mounted"
    /\ confirm = <<>>

\* The view-mode buttons.
SetViewMode ==
    /\ Ready
    /\ \E m \in ViewModes : viewMode' = m
    /\ UNCHANGED <<workouts, stored, storedAtMount, pending, mpc, timePeriod,
                   currentWorkout, confirm, nextId>>
    /\ PlannerFrame

\* The period buttons, which the analysis view renders when hasAnalysisData.
SetTimePeriod ==
    /\ Ready
    /\ viewMode = "analysis"
    /\ hasAnalysisData(workouts, timePeriod, now)
    /\ \E period \in TimePeriods : timePeriod' = period
    /\ UNCHANGED <<workouts, stored, storedAtMount, pending, mpc, viewMode,
                   currentWorkout, confirm, nextId>>
    /\ PlannerFrame

\* What no handler of the workouts view changes.
HandlerFrame ==
    /\ UNCHANGED <<storedAtMount, pending, mpc, timePeriod, viewMode>>
    /\ PlannerFrame

\* The workouts view renders the draft editor when there is a draft, and
\* the start button and the saved workouts when there is none.
DraftOpen ==
    currentWorkout # <<>>

\* startNewWorkout, of the start button.
StartNewWorkout ==
    /\ Ready
    /\ viewMode = "workouts"
    /\ ~DraftOpen
    /\ nextId <= LastStoredId + MaxDrafts
    /\ currentWorkout' = <<[id |-> nextId, date |-> DayOf(now), exercises |-> <<>>]>>
    /\ nextId' = nextId + 1
    /\ UNCHANGED <<workouts, stored, confirm>>
    /\ HandlerFrame

\* The date field of the draft editor:
\*   setCurrentWorkout({ ...currentWorkout, date: e.target.value })
SetDraftDate ==
    /\ Ready
    /\ viewMode = "workouts"
    /\ DraftOpen
    /\ \E date \in DraftDates :
           currentWorkout' = <<[currentWorkout[1] EXCEPT !.date = date]>>
    /\ UNCHANGED <<workouts, stored, confirm, nextId>>
    /\ HandlerFrame

\* addExercise(exercise): without a draft the updater returns prev.
AddExercise ==
    /\ Ready
    /\ viewMode = "workouts"
    /\ \E k \in 1..Len(exerciseDB) :
           IF ~DraftOpen
           THEN UNCHANGED currentWorkout
           ELSE /\ RoomForSet
                /\ currentWorkout' =
                       <<[currentWorkout[1] EXCEPT !.exercises =
                             Append(@, Logged(exerciseDB[k]))]>>
    /\ UNCHANGED <<workouts, stored, confirm, nextId>>
    /\ HandlerFrame

\* updateSet(exerciseIndex, setIndex, field, value): returns at once
\* without a draft.
UpdateSet ==
    /\ Ready
    /\ viewMode = "workouts"
    /\ IF ~DraftOpen
       THEN UNCHANGED currentWorkout
       ELSE \E exerciseIndex \in 1..Len(currentWorkout[1].exercises) :
            \E setIndex \in 1..Len(currentWorkout[1].exercises[exerciseIndex].sets) :
            \E field \in SetFields, value \in TypedValues :
                /\ currentWorkout' =
                       <<[currentWorkout[1] EXCEPT !.exercises =
                             UpdatedExercises(@, exerciseIndex, setIndex, field, value)]>>
                /\ EditedFields(workouts, currentWorkout') <= MaxEditedFields
    /\ UNCHANGED <<workouts, stored, confirm, nextId>>
    /\ HandlerFrame

\* addSet(exerciseIndex): returns at once without a draft.
AddSet ==
    /\ Ready
    /\ viewMode = "workouts"
    /\ IF ~DraftOpen
       THEN UNCHANGED currentWorkout
       ELSE \E exerciseIndex \in 1..Len(currentWorkout[1].exercises) :
                /\ RoomForSet
                /\ currentWorkout' =
                       <<[currentWorkout[1] EXCEPT !.exercises =
                             WithSetAdded(@, exerciseIndex)]>>
    /\ UNCHANGED <<workouts, stored, confirm, nextId>>
    /\ HandlerFrame

\* The Cancel button of the draft editor: setCurrentWorkout(null).
CancelDraft ==
    /\ Ready
    /\ viewMode = "workouts"
    /\ DraftOpen
    /\ currentWorkout' = <<>>
    /\ UNCHANGED <<workouts, stored, confirm, nextId>>
    /\ HandlerFrame

\* saveWorkout: a draft with an exercise is committed, any other call does
\* nothing.
SaveWorkout ==
    /\ Ready
    /\ viewMode = "workouts"
    /\ IF DraftOpen /\ Len(currentWorkout[1].exercises) > 0
       THEN /\ Len(workouts) < MaxWorkouts
            /\ SetWorkouts(SavedHistory(workouts, currentWorkout[1]))
            /\ currentWorkout' = <<>>
       ELSE UNCHANGED <<workouts, stored, currentWorkout>>
    /\ UNCHANGED <<confirm, nextId>>
    /\ HandlerFrame

\* addExerciseToWorkout(workoutId, exercise), of the picker of a saved
\* workout.
AddExerciseToWorkout ==
    /\ Ready
    /\ viewMode = "workouts"
    /\ ~DraftOpen
    /\ \E i \in 1..Len(workouts), k \in 1..Len(exerciseDB) :
           LET workoutExercise == Logged(exerciseDB[k])
               Added == [w \in WorkoutsOf(workouts) |->
                            [w EXCEPT !.exercises = Append(@, workoutExercise)]]
           IN  /\ RoomForSet
               /\ SetWorkouts(MapWorkout(workouts, workouts[i].id, Added))
    /\ UNCHANGED <<currentWorkout, confirm, nextId>>
    /\ HandlerFrame

\* updateSetInWorkout(workoutId, exerciseIndex, setIndex, field, value), of
\* the number fields of a saved exercise.
UpdateSetInWorkout ==
    /\ Ready
    /\ viewMode = "workouts"
    /\ ~DraftOpen
    /\ \E i \in 1..Len(workouts) :
       \E exerciseIndex \in 1..Len(workouts[i].exercises) :
       \E setIndex \in 1..Len(workouts[i].exercises[exerciseIndex].sets) :
       \E field \in SetFields, value \in TypedValues :
           LET Updated ==
                   [w \in WorkoutsOf(workouts) |->
                       [w EXCEPT !.exercises =
                           UpdatedExercises(@, exerciseIndex, setIndex, field, value)]]
           IN  /\ SetWorkouts(MapWorkout(workouts, workouts[i].id, Updated))
               /\ EditedFields(workouts', currentWorkout) <= MaxEditedFields
    /\ UNCHANGED <<currentWorkout, confirm, nextId>>
    /\ HandlerFrame

\* addSetToWorkout(workoutId, exerciseIndex), of a saved exercise.
AddSetToWorkout ==
    /\ Ready
    /\ viewMode = "workouts"
    /\ ~DraftOpen
    /\ \E i \in 1..Len(workouts) :
       \E exerciseIndex \in 1..Len(workouts[i].exercises) :
           LET Updated == [w \in WorkoutsOf(workouts) |->
                              [w EXCEPT !.exercises = WithSetAdded(@, exerciseIndex)]]
           IN  /\ RoomForSet
               /\ SetWorkouts(MapWorkout(workouts, workouts[i].id, Updated))
    /\ UNCHANGED <<currentWorkout, confirm, nextId>>
    /\ HandlerFrame

\* The confirmation dialogs: showDeleteExerciseConfirm,
\* showDeleteWorkoutConfirm and showClearConfirm.
Dialog(kind, workoutId, exerciseIndex) ==
    <<[kind |-> kind, workoutId |-> workoutId, exerciseIndex |-> exerciseIndex]>>

\* The delete button of an exercise, of the draft or of a saved workout.
RequestDeleteExercise ==
    /\ Ready
    /\ viewMode = "workouts"
    /\ IF DraftOpen
       THEN \E exerciseIndex \in 1..Len(currentWorkout[1].exercises) :
                confirm' = Dialog("exercise", currentWorkout[1].id, exerciseIndex)
       ELSE \E i \in 1..Len(workouts) :
            \E exerciseIndex \in 1..Len(workouts[i].exercises) :
                confirm' = Dialog("exercise", workouts[i].id, exerciseIndex)
    /\ UNCHANGED <<workouts, stored, currentWorkout, nextId>>
    /\ HandlerFrame

\* The delete button of a saved workout.
RequestDeleteWorkout ==
    /\ Ready
    /\ viewMode = "workouts"
    /\ ~DraftOpen
    /\ \E i \in 1..Len(workouts) :
           confirm' = Dialog("workout", workouts[i].id, 0)
    /\ UNCHANGED <<workouts, stored, currentWorkout, nextId>>
    /\ HandlerFrame

\* The Clear All button, rendered when the history is not empty.
RequestClearAll ==
    /\ Ready
    /\ viewMode = "workouts"
    /\ ~DraftOpen
    /\ Len(workouts) > 0
    /\ confirm' = Dialog("clear", 0, 0)
    /\ UNCHANGED <<workouts, stored, currentWorkout, nextId>>
    /\ HandlerFrame

\* deleteExerciseFromWorkout(workoutId, exerciseIndex)
deleteExerciseFromWorkout(history, workoutId, exerciseIndex) ==
    LET Updated == [w \in WorkoutsOf(history) |->
                       [w EXCEPT !.exercises = Spliced(@, exerciseIndex)]]
    IN  MapWorkout(history, workoutId, Updated)

\* deleteWorkout(id): workouts.filter(w => w.id !== id)
deleteWorkout(history, id) ==
    SelectSeq(history, LAMBDA w : w.id # id)

\* The Delete button of the exercise dialog: the exercise is spliced out of
\* the draft when the dialog names the draft, else out of the saved workout.
ConfirmDeleteExercise ==
    /\ mpc = "mounted"
    /\ confirm # <<>>
    /\ confirm[1].kind = "exercise"
    /\ IF DraftOpen /\ currentWorkout[1].id = confirm[1].workoutId
       THEN /\ currentWorkout' =
                   <<[currentWorkout[1] EXCEPT !.exercises =
                         Spliced(@, confirm[1].exerciseIndex)]>>
            /\ UNCHANGED <<workouts, stored>>
       ELSE /\ SetWorkouts(deleteExerciseFromWorkout(workouts, confirm[1].workoutId,
                                                     confirm[1].exerciseIndex))
            /\ UNCHANGED currentWorkout
    /\ confirm' = <<>>
    /\ UNCHANGED nextId
    /\ HandlerFrame

\* The Delete button of the workout dialog.
ConfirmDeleteWorkout ==
    /\ mpc = "mounted"
    /\ confirm # <<>>
    /\ confirm[1].kind = "workout"
    /\ SetWorkouts(deleteWorkout(workouts, confirm[1].workoutId))
    /\ confirm' = <<>>
    /\ UNCHANGED <<currentWorkout, nextId>>
    /\ HandlerFrame

\* clearAllWorkouts, of the Clear button of the clear dialog.
ClearAllWorkouts ==
    /\ mpc = "mounted"
    /\ confirm # <<>>
    /\ confirm[1].kind = "clear"
    /\ SetWorkouts(<<>>)
    /\ confirm' = <<>>
    /\ UNCHANGED <<currentWorkout, nextId>>
    /\ HandlerFrame

\* The Cancel button and the backdrop of a dialog.
DismissConfirm ==
    /\ mpc = "mounted"
    /\ confirm # <<>>
    /\ confirm' = <<>>
    /\ UNCHANGED <<workouts, stored, currentWorkout, nextId>>
    /\ HandlerFrame

\* The mount of the component and the handlers of the workouts view.
NextPlanner ==
    \/ LoadEffect \/ SaveEffect \/ Rerender
    \/ StartNewWorkout \/ SetDraftDate \/ AddExercise \/ UpdateSet \/ AddSet
    \/ CancelDraft \/ SaveWorkout
    \/ AddExerciseToWorkout \/ UpdateSetInWorkout \/ AddSetToWorkout
    \/ RequestDeleteExercise \/ RequestDeleteWorkout \/ RequestClearAll
    \/ ConfirmDeleteExercise \/ ConfirmDeleteWorkout \/ ClearAllWorkouts
    \/ DismissConfirm

SpecPlanner ==
    InitPlanner /\ [][NextPlanner]_vars

\* The same with the buttons of the view mode and of the analysis period.
NextView ==
    \/ NextPlanner
    \/ SetViewMode \/ SetTimePeriod

SpecView ==
    InitPlanner /\ [][NextView]_vars

\* ------------------------------------------------------------------------
\* Claims about the planner's draft and history
\* ------------------------------------------------------------------------

\* C21: after any sequence of user operations (start workout, add
\* exercise, add or edit a set, save, cancel, add or delete an exercise of a
\* saved workout, delete workout, clear all), every workout of the saved
\* history has at least one exercise.
C21_SavedWorkoutsHaveExercises ==
    \A i \in 1..Len(workouts) : Len(workouts[i].exercises) >= 1

\* C22: a workout is immutable once saved: no step changes the date, the
\* exercises or the sets of a workout of the history; a step either keeps
\* the workout as it is or removes it (deleteWorkout, clearAllWorkouts).
C22_SavedWorkoutImmutable ==
    [][\A i \in 1..Len(workouts) :
           \A j \in 1..Len(workouts') :
               workouts'[j].id = workouts[i].id => workouts'[j] = workouts[i]]_vars

\* C22 (amended): a saved workout keeps its date, and it changes only by
\* an edit of a saved workout (updateSetInWorkout, addSetToWorkout,
\* addExerciseToWorkout, deleteExerciseFromWorkout), made while no draft is
\* open: such a step changes one workout only, in place, and leaves the
\* others and the length of the history as they are. The operations on the
\* draft, the save of the draft included, change no saved workout.
C22_SavedWorkoutChangesOnlyByItsEdits ==
    [][\A i \in 1..Len(workouts) :
           \A j \in 1..Len(workouts') :
               (workouts'[j].id = workouts[i].id /\ workouts'[j] # workouts[i])
                   => /\ j = i
                      /\ Len(workouts') = Len(workouts)
                      /\ workouts'[j].date = workouts[i].date
                      /\ \A k \in 1..Len(workouts) :
                             k # i => workouts'[k] = workouts[k]
                      /\ currentWorkout = <<>>
                      /\ currentWorkout' = <<>>]_vars

\* A saved workout has been edited while the history holds another one.
C22_Witness ==
    /\ mpc = "mounted"
    /\ Len(workouts) = 2
    /\ workouts[1].id = 1
    /\ workouts[1].exercises # StoredWorkout(1, Today - 8).exercises
    /\ workouts[1].date = Today - 8

\* Every set of the exercises has reps and weight at or above zero.
NonNegativeSets(exercises) ==
    \A e \in 1..Len(exercises) :
        \A s \in 1..Len(exercises[e].sets) :
            /\ exercises[e].sets[s].reps \in Nat
            /\ exercises[e].sets[s].weight >= 0

\* C23: after any sequence of updateSet and updateSetInWorkout calls with
\* arbitrary typed strings, every set of the draft and of every saved
\* workout has a non-negative integer number of reps and a non-negative
\* weight.
C23_SetsNonNegative ==
    /\ currentWorkout # <<>> => NonNegativeSets(currentWorkout[1].exercises)
    /\ \A i \in 1..Len(workouts) : NonNegativeSets(workouts[i].exercises)

\* Every exercise of the list has a set.
EveryExerciseHasSet(exercises) ==
    \A e \in 1..Len(exercises) : Len(exercises[e].sets) >= 1

\* When the list of exercises grew by one, the exercise added is the last
\* one and has the one set { reps: 10, weight: 0 }.
AddedWithDefaultSet(before, after) ==
    Len(after) = Len(before) + 1
        => /\ after[Len(after)].sets = <<Set(10, 0)>>
           /\ SubSeq(after, 1, Len(before)) = before

\* C24: an exercise added to the draft (addExercise) or to a saved workout
\* (addExerciseToWorkout) starts with exactly the one set
\* { reps: 10, weight: 0 }; after every step, add-set and edit-set included,
\* every exercise of the draft and of the history has at least one set; and
\* addExercise with no draft open changes nothing.
C24_ExercisesKeepASet ==
    [][/\ currentWorkout' # <<>>
            => EveryExerciseHasSet(currentWorkout'[1].exercises)
       /\ \A j \in 1..Len(workouts') :
              EveryExerciseHasSet(workouts'[j].exercises)
       /\ (currentWorkout # <<>> /\ currentWorkout' # <<>>)
            => AddedWithDefaultSet(currentWorkout[1].exercises,
                                   currentWorkout'[1].exercises)
       /\ \A i \in 1..Len(workouts) :
              \A j \in 1..Len(workouts') :
                  workouts'[j].id = workouts[i].id
                      => AddedWithDefaultSet(workouts[i].exercises,
                                             workouts'[j].exercises)
       /\ (AddExercise /\ currentWorkout = <<>>)
            => UNCHANGED <<workouts, currentWorkout, stored, confirm>>]_vars

\* The draft holds an added exercise whose set was edited and then copied
\* by add-set.
C24_Witness ==
    /\ currentWorkout # <<>>
    /\ Len(currentWorkout[1].exercises) = 1
    /\ Len(currentWorkout[1].exercises[1].sets) = 2
    /\ currentWorkout[1].exercises[1].sets[1].reps # 10
    /\ currentWorkout[1].exercises[1].sets[2] = currentWorkout[1].exercises[1].sets[1]

\* ------------------------------------------------------------------------
\* The partial match of normalizeMuscleGroup
\* ------------------------------------------------------------------------

AliasKeys ==
    {muscleGroupMap[i].key : i \in 1..Len(muscleGroupMap)}

\* The alias keys, by position in the table, that the name contains or that
\* contain the name.
PartialMatches(name) ==
    {i \in 1..Len(muscleGroupMap) :
        \/ Includes(name, muscleGroupMap[i].key)
        \/ Includes(muscleGroupMap[i].key, name)}

\* The group of the first such key in declaration order, null without one.
FirstPartialMatch(name) ==
    IF PartialMatches(name) = {} THEN NullGroup
    ELSE muscleGroupMap[CHOOSE i \in PartialMatches(name) :
                            \A j \in PartialMatches(name) : i <= j].value

\* C25: when the trimmed, lower-cased input is not itself an alias key,
\* normalizeMuscleGroup returns the group of the first alias key, in the
\* declaration order of the table, that the input contains or that contains
\* the input, and null when there is no such key.
C25_FirstPartialMatch ==
    (npc = "done" /\ Trim(ToLowerCase(muscleName)) \notin AliasKeys)
        => normalizedGroup = FirstPartialMatch(Trim(ToLowerCase(muscleName)))

\* The same for the inputs that name no property the alias table inherits:
\* for these the first partial match is what is returned.
C25_FirstPartialMatchOfOwnNames ==
    (/\ npc = "done"
     /\ Trim(ToLowerCase(muscleName)) \notin AliasKeys
     /\ Trim(ToLowerCase(muscleName)) \notin DOMAIN InheritedProperties)
        => normalizedGroup = FirstPartialMatch(Trim(ToLowerCase(muscleName)))

\* 'Lower Back muscles' is resolved by the first matching key, back, not by
\* the longest one, lower back.
C25_FirstNotLongest ==
    (npc = "done" /\ muscleName = NameLowerBackMuscles)
        => normalizedGroup = "back"

\* ------------------------------------------------------------------------
\* The three facts of a muscle group: engagement, count and date
\* ------------------------------------------------------------------------

\* With engagementCount counted exactly, as a real number: in the map of a
\* render, a group has a positive engagementCount exactly when it has a
\* positive exercise count, exactly when its lastWorkedDate is set.
C26_ThreeFactsAgreeExactly ==
    pc = "done" =>
        \A i \in 1..Len(muscleStats) :
            /\ muscleStats[i].engagementCount > 0 <=> muscleStats[i].workouts > 0
            /\ muscleStats[i].workouts > 0 <=> muscleStats[i].lastWorkedDate # NullDate

\* The smallest binary64 numbers.  Below 2^-1022 a binary64 number is a
\* whole number of units of 2^-1074, and there sums and products by an
\* integer are exact.  A Number of this part is n halves (n * 0.5) or, with
\* n = 0, k units of 2^-1074: a sum with a half absorbs the units, which are
\* far below the last bit of 0.5.
Subnormal(k) ==
    [halves |-> 0, units |-> k]

OneSubnormal ==
    [halves |-> 2, units |-> 0]

\* k / d for k >= 0 units, rounded to nearest, ties to even.
RoundedQuotient(k, d) ==
    LET q == k \div d
        r == k % d
    IN  IF 2 * r > d \/ (2 * r = d /\ q % 2 = 1) THEN q + 1 ELSE q

PositiveSubnormal(x) ==
    x.halves > 0 \/ x.units > 0

\* x + y
AddSubnormal(x, y) ==
    [halves |-> x.halves + y.halves,
     units  |-> IF x.halves + y.halves > 0 THEN 0 ELSE x.units + y.units]

\* x * 0.5
HalfSubnormal(x) ==
    [halves |-> x.halves \div 2, units |-> RoundedQuotient(x.units, 2)]

\* engagementValue = normalizedVolume > 0 ? normalizedVolume : 1.0, the
\* weights of the sets being whole numbers of units of 2^-1074.
engagementValueSubnormal(exercise) ==
    LET volume == totalVolume(exercise.sets)
        normalizedVolume == IF volume > 0
                            THEN RoundedQuotient(volume, VolumeDivisor) ELSE 0
    IN  IF normalizedVolume > 0 THEN Subnormal(normalizedVolume)
        ELSE OneSubnormal

\* stat.engagementCount += term for every entry of the list that has a
\* stat, in the order of the list.
RECURSIVE AddEachSubnormal(_, _, _)
AddEachSubnormal(counts, mgs, term) ==
    IF mgs = <<>> THEN counts
    ELSE AddEachSubnormal(IF Head(mgs) \in DOMAIN counts
                          THEN [counts EXCEPT ![Head(mgs)] = AddSubnormal(@, term)]
                          ELSE counts,
                          Tail(mgs), term)

\* The += of primary.forEach, then those of secondary.forEach.
ExerciseStepSubnormal(counts, exercise) ==
    LET mgs   == getMuscleGroupsFromExercise(exercise)
        value == engagementValueSubnormal(exercise)
    IN  AddEachSubnormal(AddEachSubnormal(counts, mgs.primary, value),
                         mgs.secondary, HalfSubnormal(value))

RECURSIVE ExerciseLoopSubnormal(_, _)
ExerciseLoopSubnormal(counts, exercises) ==
    IF exercises = <<>> THEN counts
    ELSE ExerciseLoopSubnormal(ExerciseStepSubnormal(counts, Head(exercises)),
                               Tail(exercises))

RECURSIVE WorkoutLoopSubnormal(_, _, _)
WorkoutLoopSubnormal(counts, ws, cutoffDate) ==
    IF ws = <<>> THEN counts
    ELSE WorkoutLoopSubnormal(IF Skipped(Head(ws), cutoffDate) THEN counts
                              ELSE ExerciseLoopSubnormal(counts, Head(ws).exercises),
                              Tail(ws), cutoffDate)

\* The engagementCount of every group in the result of
\* analyzeMuscleGroups(workouts, timePeriod), called at the instant now, for
\* weights in units of 2^-1074.
engagementCountsSubnormal(ws, period, instant) ==
    WorkoutLoopSubnormal([g \in MajorSet |-> Subnormal(0)], ws,
                         SetDateBack(instant, period))

\* The weights of the sets, in units of 2^-1074: none, 5e-321 (1012 units),
\* and weights around it.
SubnormalWeights ==
    {0, 499, 1012, 1500, 2600}

\* A bench press of one set of one repetition.
LoggedSubnormal(weight) ==
    [name |-> BenchPress, primaryMuscles |-> <<NameChest>>,
     secondaryMuscles |-> <<NameTriceps>>,
     sets |-> <<Set(1, weight)>>]

SubnormalWorkouts ==
    {[date |-> Today - k, exercises |-> <<LoggedSubnormal(w)>>] :
        k \in {0, 31}, w \in SubnormalWeights}

SubnormalHistories ==
    {WithIds(h) : h \in SeqUpTo(SubnormalWorkouts, MaxWorkouts)}

\* A history whose weights are typed as very small numbers.
InitSubnormal ==
    /\ workouts \in SubnormalHistories
    /\ timePeriod \in TimePeriods
    /\ now = Today * TicksPerDay
    /\ AnalysisIdle
    /\ SuggestIdle
    /\ PlannerIdle /\ HighlighterIdle
    /\ NormalizeIdle /\ ClassifyIdle /\ HeatIdle
    /\ otherWorkouts = <<>>
    /\ otherNow = 0
    /\ otherStats = <<>>
    /\ cpc = "idle"
    /\ counts64 = <<>>
    /\ otherCounts64 = <<>>
    /\ bpc = "start"

\* The engagementCount fields of the map of the render, read as the
\* binary64 numbers the call has accumulated.
ReadCountsSubnormal ==
    /\ pc = "done"
    /\ cpc = "idle"
    /\ bpc = "start"
    /\ counts64' = engagementCountsSubnormal(workouts, timePeriod, now)
    /\ bpc' = "done"
    /\ UNCHANGED <<otherCounts64, otherWorkouts, otherNow, otherStats, cpc,
                   analysisVars, suggestVars, muscleVars, heatVars,
                   plannerVars, highlighterVars>>

NextSubnormal ==
    \/ Render
    \/ ReadCountsSubnormal

SpecSubnormal ==
    InitSubnormal /\ [][NextSubnormal]_vars

\* C26: in every map returned by analyzeMuscleGroups the three facts of a
\* muscle group agree: its engagementCount is positive exactly when its
\* exercise count is positive, exactly when its lastWorkedDate is not null.
C26_ThreeFactsAgree ==
    bpc = "done" =>
        \A i \in 1..Len(muscleStats) :
            /\ PositiveSubnormal(counts64[muscleStats[i].muscleGroup])
                   <=> muscleStats[i].workouts > 0
            /\ muscleStats[i].workouts > 0
                   <=> muscleStats[i].lastWorkedDate # NullDate

\* ------------------------------------------------------------------------
\* utils/muscleNameMapping and the click on the body of BodyHeatmap
\* ------------------------------------------------------------------------

\* muscleNameMap: the names react-body-highlighter gives the regions of a
\* muscle group, the entries in declaration order.
muscleNameMap ==
  <<
    [key |-> "chest", value |-> <<"chest">>],
    [key |-> "back", value |-> <<"upper-back">>],
    [key |-> "shoulders", value |-> <<"front-deltoids", "back-deltoids">>],
    [key |-> "biceps", value |-> <<"biceps">>],
    [key |-> "triceps", value |-> <<"triceps">>],
    [key |-> "forearms", value |-> <<"forearm">>],
    [key |-> "abdominals", value |-> <<"abs", "obliques">>],
    [key |-> "quadriceps", value |-> <<"quadriceps">>],
    [key |-> "hamstrings", value |-> <<"hamstring">>],
    [key |-> "glutes", value |-> <<"gluteal">>],
    [key |-> "calves", value |-> <<"calves">>],
    [key |-> "traps", value |-> <<"trapezius">>],
    [key |-> "lats", value |-> <<"upper-back">>],
    [key |-> "middle back", value |-> <<"upper-back">>],
    [key |-> "lower back", value |-> <<"lower-back">>],
    [key |-> "adductors", value |-> <<"adductor">>],
    [key |-> "abductors", value |-> <<"abductors">>],
    [key |-> "neck", value |-> <<"neck">>]
  >>

\* getBodyHighlighterMuscles: muscleNameMap[muscleGroup] || [muscleGroup]
getBodyHighlighterMuscles(muscleGroup) ==
    IF \E i \in 1..Len(muscleNameMap) : muscleNameMap[i].key = muscleGroup
    THEN muscleNameMap[CHOOSE i \in 1..Len(muscleNameMap) :
                           muscleNameMap[i].key = muscleGroup].value
    ELSE <<muscleGroup>>

\* getMuscleGroupFromHighlighterName: the key of the first entry of
\* Object.entries(muscleNameMap) whose names include the name, else null.
getMuscleGroupFromHighlighterName(name) ==
    LET found == {i \in 1..Len(muscleNameMap) :
                     SeqIncludes(muscleNameMap[i].value, name)}
    IN  IF found = {} THEN NullGroup
        ELSE muscleNameMap[CHOOSE i \in found : \A j \in found : i <= j].key

\* The names of the regions of the body of react-body-highlighter.
HighlighterNames ==
    {"trapezius", "upper-back", "lower-back", "chest", "biceps", "triceps",
     "forearm", "back-deltoids", "front-deltoids", "abs", "obliques",
     "adductor", "hamstring", "quadriceps", "abductors", "calves", "gluteal",
     "head", "neck"}

\* The names of a list.
NamesOf(names) ==
    {names[i] : i \in 1..Len(names)}

\* A muscle group whose regions the body highlights.
InitHighlighter ==
    /\ workouts = <<>>
    /\ timePeriod = 7
    /\ now = Today * TicksPerDay
    /\ AnalysisIdle
    /\ SuggestIdle
    /\ NormalizeIdle /\ ClassifyIdle /\ HeatIdle /\ CompareIdle
    /\ PlannerIdle
    /\ highlighterGroup \in MuscleGroup
    /\ highlighterName = ""
    /\ clickedGroup = NullGroup
    /\ gpc = "start"

\* handleMuscleClick({ muscle }): a click on a region of the body, one the
\* group highlights or any other.
HandleMuscleClick ==
    /\ gpc = "start"
    /\ \E muscle \in NamesOf(getBodyHighlighterMuscles(highlighterGroup))
                     \cup HighlighterNames :
           /\ highlighterName' = muscle
           /\ clickedGroup' = getMuscleGroupFromHighlighterName(muscle)
    /\ gpc' = "clicked"
    /\ UNCHANGED <<highlighterGroup, analysisVars, suggestVars, muscleVars,
                   heatVars, compareVars, plannerVars>>

NextHighlighter ==
    HandleMuscleClick

SpecHighlighter ==
    InitHighlighter /\ [][NextHighlighter]_vars

\* C27: the mapping of the names round-trips: for every muscle group g and
\* every name h of getBodyHighlighterMuscles(g),
\* getMuscleGroupFromHighlighterName(h) is g, so that the click on a region
\* selects the group that highlighted it; and a name in no list gives null.
C27_NamesRoundTrip ==
    gpc = "clicked" =>
        /\ highlighterName \in NamesOf(getBodyHighlighterMuscles(highlighterGroup))
               => clickedGroup = highlighterGroup
        /\ (\A i \in 1..Len(muscleNameMap) :
                highlighterName \notin NamesOf(muscleNameMap[i].value))
               => clickedGroup = NullGroup

\* A round trip ends at a group that highlights the region clicked, and a
\* name in no list gives null.
C27_ClickedGroupHighlightsRegion ==
    gpc = "clicked" =>
        /\ clickedGroup # NullGroup
               => highlighterName \in NamesOf(getBodyHighlighterMuscles(clickedGroup))
        /\ (\A i \in 1..Len(muscleNameMap) :
                highlighterName \notin NamesOf(muscleNameMap[i].value))
               <=> clickedGroup = NullGroup

\* ------------------------------------------------------------------------
\* Claims about the stored history, the periods and the save
\* ------------------------------------------------------------------------

\* The history an item of localStorage holds: the workouts of the object the
\* text parses to, none when there is no item, no object or no workouts.
HistoryStored(item) ==
    IF item # <<>> /\ item[1].parses /\ item[1].hasWorkouts
    THEN item[1].workouts
    ELSE <<>>

\* C28: on mount the stored history is read before the history in memory
\* is first written back; when the effects of the mount have settled, the
\* history in memory is the one that was stored before the mount; and from
\* then on, after every change of the history, the stored value is again
\* the history in memory.
C28_LoadedBeforeSavedThenInSync ==
    [][/\ (mpc \in {"effect1", "effect2"} /\ stored' # stored)
            => /\ mpc = "effect2"
               /\ pending = LoadedHistory(storedAtMount)
       /\ (mpc # "mounted" /\ mpc' = "mounted")
            => workouts' = HistoryStored(storedAtMount)
       /\ mpc' = "mounted" => stored' = <<JSONStringify(workouts')>>]_vars

\* The stored history has been loaded, a workout has been saved after it,
\* and the stored value holds both.
C28_Witness ==
    /\ mpc = "mounted"
    /\ Len(workouts) = 2
    /\ workouts[1] = StoredWorkout(1, Today - 8)
    /\ stored = <<JSONStringify(workouts)>>

\* The analysis of the last 30 days is on display.
ThirtyDayAnalysisDisplayed ==
    /\ mpc = "mounted"
    /\ viewMode = "analysis"
    /\ timePeriod = 30
    /\ hasAnalysisData(workouts, timePeriod, now)

\* The states the user cannot leave: the selected period is not 30 and
\* holds no workout, so that the analysis view renders no period button,
\* and with no exercise in the catalog no workout can be logged into it.
PeriodStuck ==
    /\ mpc = "mounted"
    /\ timePeriod # 30
    /\ ~hasAnalysisData(workouts, timePeriod, now)
    /\ exerciseDB = <<>>
    /\ currentWorkout # <<>> => currentWorkout[1].exercises = <<>>

\* C29: the user can always reach every analysis period: from any state in
\* which the history holds a workout of the last 30 days, a sequence of
\* user actions leads to the display of the 30-day analysis, also when the
\* selected period holds no workout.  No such state, then, is one of those
\* that no user action leaves and that never display that analysis.
C29_ThirtyDaysReachable ==
    (mpc = "mounted" /\ hasAnalysisData(workouts, 30, now)) => ~PeriodStuck

\* No user action leaves the states of PeriodStuck, and none of them
\* displays the 30-day analysis: whatever the user does from there, the
\* 30-day analysis is never displayed.
C29_StuckForEver ==
    [][PeriodStuck => (PeriodStuck' /\ ~ThirtyDayAnalysisDisplayed')]_vars

\* The cause: in the analysis view the period buttons are rendered only
\* when the selected period holds a workout; were they rendered whenever
\* the last 30 days hold one, this would hold.
C29_PeriodButtonsRendered ==
    (mpc = "mounted" /\ viewMode = "analysis" /\ hasAnalysisData(workouts, 30, now))
        => hasAnalysisData(workouts, timePeriod, now)

\* The draft holds an exercise: saveWorkout commits it.
DraftHasExercise ==
    currentWorkout # <<>> /\ Len(currentWorkout[1].exercises) > 0

\* C30: saveWorkout on a draft with at least one exercise appends exactly
\* that draft as the last element of the history, leaves every earlier
\* entry as it is and clears the draft; saveWorkout on an empty or absent
\* draft and Cancel leave the history unchanged, Cancel discarding the
\* draft and the save of an empty draft keeping it.  While a draft is open
\* the history changes in no other way.
C30_DraftLifecycle ==
    [][/\ (SaveWorkout /\ DraftHasExercise)
            => /\ workouts' = Append(workouts, currentWorkout[1])
               /\ currentWorkout' = <<>>
       /\ (SaveWorkout /\ ~DraftHasExercise)
            => /\ workouts' = workouts
               /\ currentWorkout' = currentWorkout
       /\ CancelDraft
            => /\ workouts' = workouts
               /\ currentWorkout' = <<>>
       /\ (currentWorkout # <<>> /\ workouts' # workouts)
            => /\ DraftHasExercise
               /\ workouts' = Append(workouts, currentWorkout[1])
               /\ currentWorkout' = <<>>]_vars

\* A draft has been saved behind the workout the history held before, and
\* no draft is open.
C30_Witness ==
    /\ mpc = "mounted"
    /\ currentWorkout = <<>>
    /\ Len(workouts) = 2
    /\ workouts[1].id = 1
    /\ workouts[2].id = LastStoredId + 1
    /\ Len(workouts[2].exercises) > 0

====
